---- MODULE Spec2Model ----
(***************************************************************************)
(* Wayland input backend of the controller interface                       *)
(* (Source/Core/InputCommon/ControllerInterface/Wayland/Wayland.cpp, .h):  *)
(* the process-wide WaylandProxy g_proxy, the Seat devices, the host entry *)
(* points Init / PopulateDevices / DeInit / UpdateInput, and the           *)
(* compositor on the other end of the dedicated event queue.               *)
(*                                                                         *)
(* The program is single threaded.  Its control position is the call       *)
(* stack `stack`: a host entry point pushes a frame, a Roundtrip pushes a  *)
(* frame while RoundtripSync loops, wl_display_dispatch_queue pushes a     *)
(* frame while it runs listeners, and the construction-time capability     *)
(* handler pushes a frame while its nested keymap Roundtrip runs.          *)
(***************************************************************************)
EXTENDS Integers, Sequences, FiniteSets, TLC

----------------------------------------------------------------------------
(* Bounds of the model *)

\* registry names the compositor hands out are 1..MaxSeatId
MaxSeatId == 2
MaxEarlyId == 1
\* calls of Init by the host
MaxInit == 2
\* calls of PopulateDevices by the host
MaxPopulate == 1
\* calls of UpdateInput by the host
MaxUpdate == 2
\* events the compositor sends on its own initiative
MaxServerEvents == 2
\* allocation failures and connection losses
MaxFaults == 1
MaxInputEvents == 3

----------------------------------------------------------------------------
(* Program constants *)

\* constexpr uint32_t max_wl_seat_version = 4;
max_wl_seat_version == 4
\* for (int i = 0; i < 32; i++) AddInput(new Button(i, &m_state.buttons));
NumButtons == 32
\* 1 << (button - 0x110)
ButtonBase == 272
\* key = key + 8;
KeyOffset == 8
\* char keysym_name[64];
KeyNameBuf == 64
\* keysym > 0x0110ffff
MaxKeysym == 17891327
\* XKB_KEY_NoSymbol
XKB_KEY_NoSymbol == 0

Null == 0

Ids == 1..MaxSeatId
\* the version at which the compositor advertises the seat named id, and the
\* name it gives it
AdvertisedVersion(id) == IF id % 2 = 1 THEN 5 ELSE 2
AdvertisedName(id) == IF id % 2 = 1 THEN "seat0" ELSE ""
Capabilities == {"pointer", "keyboard"}
\* the surface handed to PopulateDevices, and some other surface of the client
OwnSurface == "hwnd"
Surfaces == {OwnSurface, "other"}

Min(a, b) == IF a < b THEN a ELSE b

VARIABLES
  \* WaylandProxy g_proxy
  m_display,          \* Null or the display handle (1)
  m_queue,            \* Null or the id of the wl_event_queue
  m_display_wrapper,  \* Null or the id of the wrapper
  m_registry,         \* Null or the id of the wl_registry
  m_seat_ids,         \* std::unordered_map<uint32_t, uint32_t>: id -> version
  adv,                \* what the registry listener was told, since the last Finish()
  \* protocol objects of the proxy
  next_obj,           \* next fresh object id
  destroyed,          \* every destroy call so far, in order: <<kind, id>>
  finish_log,         \* the kinds destroyed by the most recent Finish(), in order
  \* transport
  requests,           \* requests sent by the client, not yet handled by the compositor
  wire,               \* events sent by the compositor, not yet read by the client
  inbox,              \* events read into the dedicated queue, not yet dispatched
  conn_err,           \* the display connection is in its (sticky) error state
  \* compositor
  srv_globals,        \* id -> live global (iface "none": not advertised)
  srv_reg,            \* registry object the compositor sends globals to (Null: none)
  srv_res,            \* resources bound by devices: <<device, kind>>
  \* Seat devices, host
  devs,               \* sequence of Seat objects
  host_devices,       \* devices handed to g_controller_interface.AddDevice
  stack,              \* call stack, top is the last element
  iter,               \* range-for iterator of PopulateDevices over m_seat_ids
  used,               \* budget counters
  crashed,            \* the process died (null dereference, use after free)
  \* Common::AtomicInt2D, the window size handed from one thread to another
  m_val,              \* std::atomic_uint64_t, as its two 32-bit fields
  m_fetched_width,    \* int
  m_fetched_height,   \* int
  atomic_log,         \* the last call on the object and what it returned
  \* Seat::~Seat
  dtor_log,           \* every release call of a destructor so far: <<device, object, call>>
  \* history
  last_caps           \* device -> the capabilities of the last capability event it handled

proxy_vars == <<m_display, m_queue, m_display_wrapper, m_registry, m_seat_ids, adv>>
obj_vars == <<next_obj, destroyed, finish_log>>
net_vars == <<requests, wire, inbox>>
srv_vars == <<srv_globals, srv_reg, srv_res>>
atomic_vars == <<m_val, m_fetched_width, m_fetched_height, atomic_log>>
vars == <<m_display, m_queue, m_display_wrapper, m_registry, m_seat_ids, adv, next_obj,
          destroyed, finish_log, requests, wire, inbox, conn_err, srv_globals,
          srv_reg, srv_res, devs, host_devices, stack, iter, used, crashed,
          m_val, m_fetched_width, m_fetched_height, atomic_log, dtor_log,
          last_caps>>

----------------------------------------------------------------------------
(* Maps, frames, events *)

EmptyMap == [i \in {} |-> 0]
MapPut(m, k, v) == [i \in (DOMAIN m) \cup {k} |-> IF i = k THEN v ELSE m[i]]
MapErase(m, k) == [i \in (DOMAIN m) \ {k} |-> m[i]]

Frame(op, pc, dev) == [op |-> op, pc |-> pc, dev |-> dev, done |-> FALSE, ret |-> 0,
                       q |-> Null]
Depth == Len(stack)
Top == stack[Depth]
Idle == stack = <<>>
Pop == SubSeq(stack, 1, Depth - 1)
SetTop(f) == [stack EXCEPT ![Depth] = f]
\* the caller of the frame on top continues after its call
PopResume == [Pop EXCEPT ![Depth - 1].pc = "resume"]

\* begin: the seat set the loop started on; made: the ids whose Seat the loop
\* has constructed, in order
NoIter == [active |-> FALSE, cur |-> Null, todo |-> {}, valid |-> TRUE, modified |-> FALSE,
           begin |-> {}, made |-> <<>>]

\* the record of the registry events dispatched so far: per id the interface of
\* its latest advertisement not withdrawn since ("none": withdrawn or never
\* advertised), and the ids advertised as wl_seat since their last withdrawal
NoAdv == [last |-> [i \in Ids |-> "none"], seat |-> {}]
AdvGlobal(a, id, iface) ==
  [last |-> [a.last EXCEPT ![id] = iface],
   seat |-> IF iface = "wl_seat" THEN a.seat \cup {id} ELSE a.seat]
AdvRemove(a, id) == [last |-> [a.last EXCEPT ![id] = "none"], seat |-> a.seat \ {id}]

NoGlobal == [iface |-> "none", version |-> 0, caps |-> {}]

EvGlobal(id, g) == [type |-> "global", id |-> id, iface |-> g.iface, version |-> g.version]
EvGlobalRemove(id) == [type |-> "global_remove", id |-> id]
EvDone(cb) == [type |-> "done", cb |-> cb]
EvCaps(d, caps) == [type |-> "capabilities", dev |-> d, caps |-> caps]
EvName(d, nm) == [type |-> "name", dev |-> d, name |-> nm]
EvKeymap(d, km) == [type |-> "keymap", dev |-> d, km |-> km]
EvKey(d, key, st) == [type |-> "key", dev |-> d, key |-> key, state |-> st]
EvEnter(d, s) == [type |-> "enter", dev |-> d, surface |-> s]
EvLeave(d, s) == [type |-> "leave", dev |-> d, surface |-> s]
EvMotion(d, xy) == [type |-> "motion", dev |-> d, x |-> xy[1], y |-> xy[2]]
EvButton(d, b, st) == [type |-> "button", dev |-> d, button |-> b, state |-> st]
EvAxis(d, ax, v) == [type |-> "axis", dev |-> d, axis |-> ax, value |-> v]

ReqGetRegistry(reg) == [type |-> "get_registry", reg |-> reg]
ReqSync(cb) == [type |-> "sync", cb |-> cb]
ReqBind(d, id, version) == [type |-> "bind", dev |-> d, id |-> id, version |-> version]
ReqGetPointer(d) == [type |-> "get_pointer", dev |-> d]
ReqGetKeyboard(d) == [type |-> "get_keyboard", dev |-> d]

----------------------------------------------------------------------------
(* WaylandProxy *)

\* the destroy calls Finish() issues for the handles reg, wrap, q, in its order
FinishDestroysQueueFirst(reg, wrap, q) ==
  (IF q # Null THEN << <<"queue", q>> >> ELSE <<>>) \o
  (IF wrap # Null THEN << <<"wrapper", wrap>> >> ELSE <<>>) \o
  (IF reg # Null THEN << <<"registry", reg>> >> ELSE <<>>)

FinishDestroys(reg, wrap, q) ==
  (IF reg # Null THEN << <<"registry", reg>> >> ELSE <<>>) \o
  (IF wrap # Null THEN << <<"wrapper", wrap>> >> ELSE <<>>) \o
  (IF q # Null THEN << <<"queue", q>> >> ELSE <<>>)

\* m_seat_ids.clear() under a running range-for of PopulateDevices
IterCleared == IF iter.active /\ DOMAIN m_seat_ids # {}
               THEN [iter EXCEPT !.valid = FALSE, !.todo = {}, !.modified = TRUE]
               ELSE iter

\* Finish() without m_seat_ids.clear()
FinishKeepsSeats(reg, wrap, q) ==
  /\ m_seat_ids' = m_seat_ids
  /\ adv' = adv
  /\ iter' = IterCleared
  /\ destroyed' = destroyed \o FinishDestroys(reg, wrap, q)
  /\ finish_log' = [i \in 1..Len(FinishDestroys(reg, wrap, q)) |->
                      FinishDestroys(reg, wrap, q)[i][1]]
  /\ m_registry' = Null
  /\ m_display_wrapper' = Null
  /\ m_queue' = Null
  /\ m_display' = Null
  /\ requests' = <<>>
  /\ wire' = <<>>
  /\ inbox' = <<>>
  /\ srv_reg' = Null
  /\ srv_res' = {}

\* WaylandProxy::Finish, entered with the handles reg, wrap, q.  Destroying the
\* queue and the registry ends every delivery through them: events not yet
\* dispatched are gone and the compositor's later events for the old objects
\* reach no listener.
Finish(reg, wrap, q) ==
  /\ m_seat_ids' = EmptyMap
  /\ adv' = NoAdv
  /\ iter' = IterCleared
  /\ destroyed' = destroyed \o FinishDestroys(reg, wrap, q)
  /\ finish_log' = [i \in 1..Len(FinishDestroys(reg, wrap, q)) |->
                      FinishDestroys(reg, wrap, q)[i][1]]
  /\ m_registry' = Null
  /\ m_display_wrapper' = Null
  /\ m_queue' = Null
  /\ m_display' = Null
  /\ requests' = <<>>
  /\ wire' = <<>>
  /\ inbox' = <<>>
  /\ srv_reg' = Null
  /\ srv_res' = {}

SetupSteps == {"queue", "wrapper", "registry"}

\* Setup returning on a failed creation without Finish()
SetupLeaky(fail) ==
  /\ m_display' = 1
  /\ m_queue' = IF fail = "queue" THEN Null ELSE next_obj
  /\ m_display_wrapper' = IF fail = "queue" THEN m_display_wrapper
                          ELSE IF fail = "wrapper" THEN Null ELSE next_obj + 1
  /\ m_registry' = IF fail \in {"queue", "wrapper"} THEN m_registry
                   ELSE IF fail = "registry" THEN Null ELSE next_obj + 2
  /\ next_obj' = next_obj + (IF fail = "queue" THEN 0 ELSE IF fail = "wrapper" THEN 1
                             ELSE IF fail = "registry" THEN 2 ELSE 3)
  /\ requests' = IF fail = "none" THEN <<ReqGetRegistry(next_obj + 2)>> ELSE <<>>
  /\ wire' = <<>>
  /\ inbox' = <<>>
  /\ srv_reg' = Null
  /\ srv_res' = {}
  /\ UNCHANGED <<m_seat_ids, adv, iter, destroyed, finish_log>>

\* WaylandProxy::Setup; fail names the creation step that returns null
Setup(fail) ==
  IF fail = "queue" THEN
    /\ Finish(m_registry, m_display_wrapper, Null)
    /\ UNCHANGED next_obj
  ELSE IF fail = "wrapper" THEN
    /\ Finish(m_registry, Null, next_obj)
    /\ next_obj' = next_obj + 1
  ELSE IF fail = "registry" THEN
    /\ Finish(Null, next_obj + 1, next_obj)
    /\ next_obj' = next_obj + 2
  ELSE
    /\ m_display' = 1
    /\ m_queue' = next_obj
    /\ m_display_wrapper' = next_obj + 1
    /\ m_registry' = next_obj + 2
    /\ next_obj' = next_obj + 3
    /\ requests' = <<ReqGetRegistry(next_obj + 2)>>
    /\ wire' = <<>>
    /\ inbox' = <<>>
    /\ srv_reg' = Null
    /\ srv_res' = {}
    /\ UNCHANGED <<m_seat_ids, adv, iter, destroyed, finish_log>>

HasSeatId(seat_id) == seat_id \in DOMAIN m_seat_ids

\* void Init(void* const display)
CallInit ==
  /\ ~crashed /\ Idle
  /\ used.init < MaxInit
  /\ \E fail \in {"none"} \cup (IF used.faults < MaxFaults THEN SetupSteps ELSE {}) :
       /\ Setup(fail)
       /\ used' = [used EXCEPT !.init = @ + 1,
                               !.faults = IF fail = "none" THEN @ ELSE @ + 1]
  /\ UNCHANGED <<atomic_vars, dtor_log, last_caps>>
  /\ UNCHANGED <<conn_err, srv_globals, devs, host_devices, stack, crashed>>

\* void DeInit()
CallDeInit ==
  /\ ~crashed /\ Idle
  /\ Finish(m_registry, m_display_wrapper, m_queue)
  /\ UNCHANGED <<atomic_vars, dtor_log, last_caps>>
  /\ UNCHANGED <<next_obj, conn_err, srv_globals, devs, host_devices, stack, used, crashed>>

----------------------------------------------------------------------------
(* Roundtrip *)

AtCall == ~crashed /\ ~Idle /\ Top.pc = "rt"

\* WaylandProxy::Roundtrip, up to the first dispatch of RoundtripSync.  The
\* callback of the synchronization request is named by the depth of the frame
\* that waits for it (its `done` is a local of that frame).
Roundtrip ==
  /\ AtCall
  /\ \/ /\ m_queue = Null
        /\ stack' = SetTop([Top EXCEPT !.pc = "resume"])
        /\ UNCHANGED <<proxy_vars, obj_vars, net_vars, srv_vars, iter, used>>
     \/ /\ m_queue # Null
        /\ requests' = Append(requests, ReqSync(Depth + 1))
        /\ stack' = Append(SetTop([Top EXCEPT !.pc = "in_rt"]),
                           Frame("Roundtrip", "loop", Top.dev))
        /\ UNCHANGED <<proxy_vars, obj_vars, wire, inbox, srv_vars, iter, used>>
     \/ \* wl_display_sync returns nullptr: RoundtripSync returns -1
        /\ m_queue # Null
        /\ used.faults < MaxFaults
        /\ Finish(m_registry, m_display_wrapper, m_queue)
        /\ stack' = SetTop([Top EXCEPT !.pc = "resume"])
        /\ used' = [used EXCEPT !.faults = @ + 1]
        /\ UNCHANGED next_obj
  /\ UNCHANGED <<atomic_vars, dtor_log, last_caps>>
  /\ UNCHANGED <<conn_err, srv_globals, devs, host_devices, crashed>>

InLoop == ~crashed /\ ~Idle /\ Top.op = "Roundtrip"

\* the loop condition of RoundtripSync
LoopExitsEarly(f) == ~f.done /\ f.ret > 0
LoopIgnoresError(f) == ~f.done
LoopContinues(f) == ~f.done /\ f.ret >= 0

\* ret = wl_display_dispatch_queue(m_display, m_queue): fails on a connection
\* in error (an error that is sticky, and that the client meets here when the
\* connection broke since the last call), else dispatches what the queue
\* holds, reading from the socket (and blocking there) when the queue is empty
RoundtripSyncDispatch ==
  /\ InLoop
  /\ LoopContinues(Top)
  /\ \/ /\ m_display = Null
        /\ crashed' = TRUE
        /\ UNCHANGED <<stack, wire, inbox, conn_err, used>>
     \/ /\ m_display # Null /\ conn_err
        /\ stack' = SetTop([Top EXCEPT !.ret = -1])
        /\ UNCHANGED <<crashed, wire, inbox, conn_err, used>>
     \/ /\ m_display # Null /\ ~conn_err
        /\ used.faults < MaxFaults
        /\ conn_err' = TRUE
        /\ used' = [used EXCEPT !.faults = @ + 1]
        /\ stack' = SetTop([Top EXCEPT !.ret = -1])
        /\ UNCHANGED <<crashed, wire, inbox>>
     \/ /\ m_display # Null /\ ~conn_err
        /\ inbox # <<>>
        /\ stack' = Append(stack, [Frame("Dispatch", "run", Top.dev) EXCEPT !.q = m_queue])
        /\ UNCHANGED <<crashed, wire, inbox, conn_err, used>>
     \/ /\ m_display # Null /\ ~conn_err
        /\ inbox = <<>> /\ wire # <<>>
        /\ inbox' = wire
        /\ wire' = <<>>
        /\ stack' = Append(stack, [Frame("Dispatch", "run", Top.dev) EXCEPT !.q = m_queue])
        /\ UNCHANGED <<crashed, conn_err, used>>
  /\ UNCHANGED <<atomic_vars, dtor_log, last_caps>>
  /\ UNCHANGED <<proxy_vars, obj_vars, requests, srv_vars, devs, host_devices, iter>>

InDispatch == ~crashed /\ ~Idle /\ Top.op = "Dispatch"

\* wl_display_dispatch_queue returns the number of events dispatched (only its
\* sign is kept).  When the queue it runs on was destroyed by a nested
\* Roundtrip's Finish, it works on freed memory.
DispatchReturn ==
  /\ InDispatch
  /\ \/ /\ Top.q = m_queue
        /\ inbox = <<>>
        /\ stack' = [Pop EXCEPT ![Depth - 1].ret = 0]
        /\ UNCHANGED crashed
     \/ /\ Top.q # m_queue
        /\ \/ /\ crashed' = TRUE
              /\ UNCHANGED stack
           \/ /\ \E r \in {0, -1} : stack' = [Pop EXCEPT ![Depth - 1].ret = r]
              /\ UNCHANGED crashed
  /\ UNCHANGED <<atomic_vars, dtor_log, last_caps>>
  /\ UNCHANGED <<proxy_vars, obj_vars, net_vars, conn_err, srv_vars, devs, host_devices,
                 iter, used>>

\* the end of RoundtripSync and the rest of Roundtrip
RoundtripReturn ==
  /\ InLoop
  /\ ~LoopContinues(Top)
  /\ \/ /\ Top.ret >= 0
        /\ stack' = PopResume
        /\ UNCHANGED <<proxy_vars, obj_vars, net_vars, srv_vars, iter, crashed>>
     \/ \* wl_display_get_error(m_display); Finish();
        /\ Top.ret < 0 /\ m_display # Null
        /\ Finish(m_registry, m_display_wrapper, m_queue)
        /\ stack' = PopResume
        /\ UNCHANGED <<next_obj, crashed>>
     \/ /\ Top.ret < 0 /\ m_display = Null
        /\ crashed' = TRUE
        /\ UNCHANGED <<proxy_vars, obj_vars, net_vars, srv_vars, iter, stack>>
  /\ UNCHANGED <<atomic_vars, dtor_log, last_caps>>
  /\ UNCHANGED <<conn_err, srv_globals, devs, host_devices, used>>

----------------------------------------------------------------------------
(* Listeners of the proxy *)

Dispatching == InDispatch /\ Top.q = m_queue /\ inbox # <<>>
ev == Head(inbox)

\* WaylandProxy::SyncCallback: *data = 1 for the RoundtripSync that owns the callback
SyncCallback ==
  /\ Dispatching /\ ev.type = "done"
  /\ inbox' = Tail(inbox)
  /\ stack' = [stack EXCEPT ![ev.cb].done = TRUE]
  /\ UNCHANGED <<atomic_vars, dtor_log, last_caps>>
  /\ UNCHANGED <<proxy_vars, obj_vars, requests, wire, conn_err, srv_vars, devs,
                 host_devices, iter, used, crashed>>

\* m_seat_ids[id] = ... under a running range-for: a new element lands before or
\* after the iterator
IterInserted(id) ==
  IF iter.active /\ id \notin DOMAIN m_seat_ids
  THEN {[iter EXCEPT !.modified = TRUE, !.todo = @ \cup s] : s \in {{}, {id}}}
  ELSE {iter}

\* m_seat_ids.erase(id) under a running range-for
IterErased(id) ==
  IF iter.active /\ id \in DOMAIN m_seat_ids
  THEN [iter EXCEPT !.modified = TRUE, !.todo = @ \ {id},
                    !.valid = @ /\ id # iter.cur]
  ELSE iter

SeatMapAddAny(id, interface_in, version) == MapPut(m_seat_ids, id, Min(version, max_wl_seat_version))

\* the insertion without std::min
SeatMapAddNoClamp(id, interface_in, version) ==
  IF interface_in = "wl_seat" THEN MapPut(m_seat_ids, id, version) ELSE m_seat_ids

\* the body of wl_registry_listener_global
SeatMapAdd(id, interface_in, version) ==
  IF interface_in = "wl_seat"
  THEN MapPut(m_seat_ids, id, Min(version, max_wl_seat_version))
  ELSE m_seat_ids

wl_registry_listener_global ==
  /\ Dispatching /\ ev.type = "global"
  /\ inbox' = Tail(inbox)
  /\ m_seat_ids' = SeatMapAdd(ev.id, ev.iface, ev.version)
  /\ adv' = AdvGlobal(adv, ev.id, ev.iface)
  /\ iter' \in (IF ev.iface = "wl_seat" THEN IterInserted(ev.id) ELSE {iter})
  /\ UNCHANGED <<atomic_vars, dtor_log, last_caps>>
  /\ UNCHANGED <<m_display, m_queue, m_display_wrapper, m_registry, obj_vars, requests,
                 wire, conn_err, srv_vars, devs, host_devices, stack, used, crashed>>

wl_registry_listener_global_remove ==
  /\ Dispatching /\ ev.type = "global_remove"
  /\ inbox' = Tail(inbox)
  /\ m_seat_ids' = MapErase(m_seat_ids, ev.id)
  /\ adv' = AdvRemove(adv, ev.id)
  /\ iter' = IterErased(ev.id)
  /\ UNCHANGED <<atomic_vars, dtor_log, last_caps>>
  /\ UNCHANGED <<m_display, m_queue, m_display_wrapper, m_registry, obj_vars, requests,
                 wire, conn_err, srv_vars, devs, host_devices, stack, used, crashed>>

----------------------------------------------------------------------------
(* Numbers: the float fields of Seat::State as exact fractions <<n, d>>, d > 0 *)

RECURSIVE Gcd(_, _)
Gcd(a, b) == IF b = 0 THEN a ELSE Gcd(b, a % b)
Abs(a) == IF a < 0 THEN -a ELSE a
Rat(n, d) == LET g == Gcd(Abs(n), Abs(d))
                 sg == IF d < 0 THEN -1 ELSE 1
             IN <<sg * (n \div g), sg * (d \div g)>>
Zero == <<0, 1>>
One == <<1, 1>>
RatInt(i) == <<i, 1>>
RatAdd(a, b) == Rat(a[1] * b[2] + b[1] * a[2], a[2] * b[2])
RatSub(a, b) == Rat(a[1] * b[2] - b[1] * a[2], a[2] * b[2])
RatMul(a, b) == Rat(a[1] * b[1], a[2] * b[2])
RatDiv(a, b) == Rat(a[1] * b[2], a[2] * b[1])
Vec2Zero == [x |-> Zero, y |-> Zero]

\* a < b and std::max(a, b), denominators being positive
RatLess(a, b) == a[1] * b[2] < b[1] * a[2]
RatMax(a, b) == IF RatLess(a, b) THEN b ELSE a

\* #define MOUSE_AXIS_SENSITIVITY 8.0f
MOUSE_AXIS_SENSITIVITY == <<8, 1>>

\* #define MOUSE_AXIS_SMOOTHING 1.5f
MOUSE_AXIS_SMOOTHING == <<3, 2>>

----------------------------------------------------------------------------
(* Keyboard layouts and controls *)

\* no compiled keymap (m_keymap == nullptr)
NoLayout == [min |-> 0, max |-> 0, syms |-> EmptyMap]
\* layouts the compositor may transfer: keycode range and first keysym per keycode
LayoutA == [min |-> 9, max |-> 13,
            syms |-> (9 :> 97 @@ 10 :> 0 @@ 11 :> 17891328 @@ 12 :> 65505 @@ 13 :> 65000)]
Layouts == {LayoutA}
\* keymap events: the format, whether mmap succeeds, the layout it compiles to
Keymap(format, mappable, layout) == [format |-> format, mappable |-> mappable,
                                     layout |-> layout]
Keymaps == {Keymap("xkb_v1", TRUE, l) : l \in Layouts} \cup
           {Keymap("no_keymap", TRUE, LayoutA), Keymap("xkb_v1", FALSE, LayoutA),
            Keymap("xkb_v1", TRUE, NoLayout)}

\* xkb_keysym_get_name(keysym, buf, 64): the length of the name, -1 for an invalid keysym
xkb_keysym_get_name(keysym) ==
  IF keysym > 536870911 THEN -1
  ELSE IF keysym \in 32..126 THEN 1
  ELSE IF keysym = 65505 THEN 7
  ELSE IF keysym = 65000 THEN 64  \* stands for a name the buffer cannot hold
  ELSE 10

\* keysym -= 32 for a lower case letter
FoldUpper(keysym) == IF keysym >= 97 /\ keysym <= 122 THEN keysym - 32 ELSE keysym

\* Seat::Key::Key: the control of keycode in layout; an empty m_keyname when
\* the keysym has no name
Key(layout, keycode) ==
  LET first == IF keycode \in DOMAIN layout.syms THEN layout.syms[keycode]
               ELSE XKB_KEY_NoSymbol
      keysym == FoldUpper(first)
      size == xkb_keysym_get_name(keysym)
      \* unsigned keysym_name_size: -1 reads as UINT_MAX, which is not < 64
      named == /\ ~(keysym = XKB_KEY_NoSymbol \/ keysym > MaxKeysym)
               /\ size >= 0 /\ size < KeyNameBuf
  IN [kind |-> "Key", index |-> keycode, positive |-> TRUE, reads |-> "keyboard",
      name |-> IF named THEN <<"keysym", keysym>> ELSE <<>>]

\* Seat::Button::Button
Button(index) == [kind |-> "Button", index |-> index, positive |-> TRUE,
                  reads |-> "buttons", name |-> <<"Click", index + 1>>]
\* Seat::Cursor::Cursor
Cursor(index, positive, cursor) == [kind |-> "Cursor", index |-> index, positive |-> positive,
                                    reads |-> cursor, name |-> <<"Cursor", index, positive>>]
\* Seat::Axis::Axis
Axis(index, positive, axis) == [kind |-> "Axis", index |-> index, positive |-> positive,
                                reads |-> axis, name |-> <<"Axis", index, positive>>]

Bit(i, mask) == (i \div mask) % 2 = 1

\* the pointer controls with the scroll controls on the raw accumulator
PointerControlsRawAxis ==
  [i \in 1..NumButtons |-> Button(i - 1)] \o
  [k \in 1..4 |-> LET i == k - 1 IN
      Cursor(IF Bit(i, 2) THEN 1 ELSE 0, Bit(i, 1),
             IF Bit(i, 2) THEN "cursor.y" ELSE "cursor.x")] \o
  [k \in 1..4 |-> LET i == k - 1 IN
      Axis(IF Bit(i, 2) THEN 1 ELSE 0, Bit(i, 1),
           IF Bit(i, 2) THEN "accum_axis.y" ELSE "accum_axis.x")]

\* the three AddInput loops of the pointer branch
PointerControls ==
  [i \in 1..NumButtons |-> Button(i - 1)] \o
  [k \in 1..4 |-> LET i == k - 1 IN
      Cursor(IF Bit(i, 2) THEN 1 ELSE 0, Bit(i, 1),
             IF Bit(i, 2) THEN "cursor.y" ELSE "cursor.x")] \o
  [k \in 1..4 |-> LET i == k - 1 IN
      Axis(IF Bit(i, 2) THEN 1 ELSE 0, Bit(i, 1),
           IF Bit(i, 2) THEN "axis.y" ELSE "axis.x")]

\* the key loop without the test of m_keyname.length()
KeyControlsAll(layout) ==
  [k \in 1..(IF layout.max >= layout.min THEN layout.max - layout.min + 1 ELSE 0)
     |-> Key(layout, layout.min + k - 1)]

\* the key loop of the keyboard branch: one control per keycode with a name
KeyControls(layout) ==
  LET all == [k \in 1..(IF layout.max >= layout.min THEN layout.max - layout.min + 1 ELSE 0)
                |-> Key(layout, layout.min + k - 1)]
  IN SelectSeq(all, LAMBDA c : c.name # <<>>)

\* m_state.keyboard: len = 0 is the null pointer, bits the set bit positions
NoBitmap == [len |-> 0, bits |-> {}]

\* the float a Cursor or an Axis control points at
Component(s, reads) ==
  CASE reads = "cursor.x" -> s.cursor.x
    [] reads = "cursor.y" -> s.cursor.y
    [] reads = "axis.x" -> s.axis.x
    [] reads = "axis.y" -> s.axis.y
    [] reads = "accum_axis.x" -> s.accum_axis.x
    [] reads = "accum_axis.y" -> s.accum_axis.y

\* a bool converted to ControlState
FromBool(b) == IF b THEN One ELSE Zero

\* Cursor::GetState and Axis::GetState dividing by k whatever the polarity
GetStateNoGate(s, c) ==
  CASE c.kind = "Key" -> FromBool(c.index \in s.keyboard.bits)
    [] c.kind = "Button" -> FromBool(c.index \in s.buttons)
    [] c.kind = "Cursor" -> RatMax(Zero, RatDiv(Component(s, c.reads), One))
    [] c.kind = "Axis" -> RatMax(Zero, RatDiv(Component(s, c.reads), MOUSE_AXIS_SENSITIVITY))

\* Key::GetState, Button::GetState, Cursor::GetState and Axis::GetState of
\* control c of the device with record s
GetState(s, c) ==
  CASE c.kind = "Key" -> FromBool(c.index \in s.keyboard.bits)
    [] c.kind = "Button" -> FromBool(c.index \in s.buttons)
    [] c.kind = "Cursor" ->
         RatMax(Zero, RatDiv(Component(s, c.reads), IF c.positive THEN One ELSE RatInt(-1)))
    [] c.kind = "Axis" ->
         RatMax(Zero, RatDiv(Component(s, c.reads),
                             IF c.positive THEN MOUSE_AXIS_SENSITIVITY
                             ELSE RatSub(Zero, MOUSE_AXIS_SENSITIVITY)))

\* Seat::Seat, the member initializers
NewSeat(seat_id, seat_version, seat) ==
  [m_seat_id |-> seat_id, seat_version |-> seat_version, m_seat |-> seat,
   m_pointer |-> FALSE, m_keyboard |-> FALSE, m_xkb |-> TRUE,
   m_keymap |-> NoLayout, m_keystate |-> FALSE,
   keyboard |-> NoBitmap, buttons |-> {}, cursor |-> Vec2Zero,
   accum_axis |-> Vec2Zero, axis |-> Vec2Zero,
   name |-> "Seat", m_in_surface |-> FALSE, m_constructed |-> FALSE, m_valid |-> TRUE,
   inputs |-> <<>>]

DevIds == 1..Len(devs)

----------------------------------------------------------------------------
(* Listeners of a Seat *)

SeatEvent(type) == Dispatching /\ ev.type = type /\ ev.dev \in DevIds

\* the removal test of wl_seat_listener_capabilities
CapabilityLostPointerOnly(s, capabilities) ==
  s.m_pointer /\ "pointer" \notin capabilities

CapabilityLost(s, capabilities) ==
  \/ s.m_pointer /\ "pointer" \notin capabilities
  \/ s.m_keyboard /\ "keyboard" \notin capabilities

\* wl_seat_listener_capabilities after construction
CapabilitiesConstructedRebind(s, capabilities) ==
  [s EXCEPT !.m_valid = ~CapabilityLost(s, capabilities),
            !.inputs = IF ~s.m_pointer /\ "pointer" \in capabilities
                       THEN @ \o PointerControls ELSE @,
            !.m_pointer = @ \/ "pointer" \in capabilities]

\* a handler that takes a keyboard gained after construction
CapabilitiesConstructedGain(s, capabilities) ==
  IF CapabilityLost(s, capabilities) THEN [s EXCEPT !.m_valid = FALSE]
  ELSE [s EXCEPT !.m_keyboard = @ \/ "keyboard" \in capabilities]

CapabilitiesConstructed(s, capabilities) ==
  IF CapabilityLost(s, capabilities) THEN [s EXCEPT !.m_valid = FALSE] ELSE s

\* the construction-time handler without the tests of !m_pointer and !m_keyboard
CapabilitiesConstructingAgain(s, capabilities) ==
  LET takeP == "pointer" \in capabilities
      takeK == ~s.m_keyboard /\ "keyboard" \in capabilities
  IN [s EXCEPT !.m_pointer = @ \/ takeP,
               !.inputs = IF takeP THEN @ \o PointerControls ELSE @,
               !.m_keyboard = @ \/ takeK]

\* wl_seat_listener_capabilities during construction: the pointer branch and
\* the keyboard branch up to its nested Roundtrip
CapabilitiesConstructing(s, capabilities) ==
  LET takeP == ~s.m_pointer /\ "pointer" \in capabilities
      takeK == ~s.m_keyboard /\ "keyboard" \in capabilities
  IN [s EXCEPT !.m_pointer = @ \/ takeP,
               !.inputs = IF takeP THEN @ \o PointerControls ELSE @,
               !.m_keyboard = @ \/ takeK]

wl_seat_listener_capabilities ==
  /\ SeatEvent("capabilities")
  /\ inbox' = Tail(inbox)
  /\ LET d == ev.dev
         s == devs[d]
         takeP == ~s.m_pointer /\ "pointer" \in ev.caps
         takeK == ~s.m_keyboard /\ "keyboard" \in ev.caps
     IN IF s.m_constructed
        THEN /\ devs' = [devs EXCEPT ![d] = CapabilitiesConstructed(s, ev.caps)]
             /\ UNCHANGED <<requests, stack>>
        ELSE /\ devs' = [devs EXCEPT ![d] = CapabilitiesConstructing(s, ev.caps)]
             /\ requests' = requests \o (IF takeP THEN <<ReqGetPointer(d)>> ELSE <<>>)
                                     \o (IF takeK THEN <<ReqGetKeyboard(d)>> ELSE <<>>)
             /\ stack' = IF takeK THEN Append(stack, Frame("Caps", "rt", d)) ELSE stack
  /\ last_caps' = MapPut(last_caps, ev.dev, ev.caps)
  /\ UNCHANGED <<atomic_vars, dtor_log>>
  /\ UNCHANGED <<proxy_vars, obj_vars, wire, conn_err, srv_vars, host_devices, iter, used,
                 crashed>>

\* the keyboard branch after its Roundtrip: the bitmap and the key controls
CapabilitiesKeys(s) ==
  IF s.m_keystate
  THEN [s EXCEPT !.keyboard = IF s.m_keymap.max > 0
                              THEN [len |-> s.m_keymap.max \div 8 + 1, bits |-> {}]
                              ELSE @,
                 !.inputs = @ \o KeyControls(s.m_keymap)]
  ELSE s

wl_seat_listener_capabilities_keys ==
  /\ ~crashed /\ ~Idle
  /\ Top.op = "Caps" /\ Top.pc = "resume"
  /\ devs' = [devs EXCEPT ![Top.dev] = CapabilitiesKeys(devs[Top.dev])]
  /\ stack' = Pop
  /\ UNCHANGED <<atomic_vars, dtor_log, last_caps>>
  /\ UNCHANGED <<proxy_vars, obj_vars, net_vars, conn_err, srv_vars, host_devices, iter,
                 used, crashed>>

wl_seat_listener_name ==
  /\ SeatEvent("name")
  /\ inbox' = Tail(inbox)
  /\ devs' = [devs EXCEPT ![ev.dev].name = IF ev.name # "" THEN ev.name ELSE "Seat"]
  /\ UNCHANGED <<atomic_vars, dtor_log, last_caps>>
  /\ UNCHANGED <<proxy_vars, obj_vars, requests, wire, conn_err, srv_vars, host_devices,
                 stack, iter, used, crashed>>

\* Seat::ClearKeymap
ClearKeymap(s) == [s EXCEPT !.m_keystate = FALSE, !.m_keymap = NoLayout]

\* wl_keyboard_listener_keymap
KeymapRecompile(s, km) ==
  LET c == ClearKeymap(s)
  IN IF km.format = "xkb_v1" /\ km.mappable /\ km.layout # NoLayout
     THEN [c EXCEPT !.m_keymap = km.layout, !.m_keystate = TRUE]
     ELSE c

\* a keymap handler that invalidates on a keymap it cannot use
KeymapEventStrict(s, km) ==
  IF s.m_constructed \/ ~(km.format = "xkb_v1" /\ km.mappable /\ km.layout # NoLayout)
  THEN [s EXCEPT !.m_valid = FALSE]
  ELSE [ClearKeymap(s) EXCEPT !.m_keymap = km.layout, !.m_keystate = TRUE]

KeymapEvent(s, km) ==
  IF s.m_constructed
  THEN [s EXCEPT !.m_valid = FALSE]
  ELSE LET c == ClearKeymap(s)
       IN IF km.format = "xkb_v1" /\ km.mappable /\ km.layout # NoLayout
          THEN [c EXCEPT !.m_keymap = km.layout, !.m_keystate = TRUE]
          ELSE c

wl_keyboard_listener_keymap ==
  /\ SeatEvent("keymap")
  /\ inbox' = Tail(inbox)
  /\ devs' = [devs EXCEPT ![ev.dev] = KeymapEvent(devs[ev.dev], ev.km)]
  /\ UNCHANGED <<atomic_vars, dtor_log, last_caps>>
  /\ UNCHANGED <<proxy_vars, obj_vars, requests, wire, conn_err, srv_vars, host_devices,
                 stack, iter, used, crashed>>

\* wl_keyboard_listener_key: a write through a null bitmap kills the process, a
\* write past its end may kill it or land outside what the model observes
wl_keyboard_listener_key ==
  /\ SeatEvent("key")
  /\ inbox' = Tail(inbox)
  /\ LET d == ev.dev
         key == ev.key + KeyOffset
         len == devs[d].keyboard.len
     IN /\ crashed' \in (IF len = 0 THEN {TRUE}
                         ELSE IF key \div 8 >= len THEN {TRUE, FALSE} ELSE {FALSE})
        /\ devs' = IF key \div 8 < len
                   THEN [devs EXCEPT ![d].keyboard.bits =
                           IF ev.state = "pressed" THEN @ \cup {key} ELSE @ \ {key}]
                   ELSE devs
  /\ UNCHANGED <<atomic_vars, dtor_log, last_caps>>
  /\ UNCHANGED <<proxy_vars, obj_vars, requests, wire, conn_err, srv_vars, host_devices,
                 stack, iter, used>>

\* an enter handler that does not look at the surface
wl_pointer_listener_enter_any ==
  /\ SeatEvent("enter")
  /\ inbox' = Tail(inbox)
  /\ devs' = [devs EXCEPT ![ev.dev].m_in_surface = TRUE]
  /\ UNCHANGED <<atomic_vars, dtor_log, last_caps>>
  /\ UNCHANGED <<proxy_vars, obj_vars, requests, wire, conn_err, srv_vars, host_devices,
                 stack, iter, used, crashed>>

wl_pointer_listener_enter ==
  /\ SeatEvent("enter")
  /\ inbox' = Tail(inbox)
  /\ devs' = [devs EXCEPT ![ev.dev].m_in_surface = IF ev.surface = OwnSurface THEN TRUE ELSE @]
  /\ UNCHANGED <<atomic_vars, dtor_log, last_caps>>
  /\ UNCHANGED <<proxy_vars, obj_vars, requests, wire, conn_err, srv_vars, host_devices,
                 stack, iter, used, crashed>>

wl_pointer_listener_leave ==
  /\ SeatEvent("leave")
  /\ inbox' = Tail(inbox)
  /\ devs' = [devs EXCEPT ![ev.dev].m_in_surface = IF ev.surface = OwnSurface THEN FALSE ELSE @]
  /\ UNCHANGED <<atomic_vars, dtor_log, last_caps>>
  /\ UNCHANGED <<proxy_vars, obj_vars, requests, wire, conn_err, srv_vars, host_devices,
                 stack, iter, used, crashed>>

\* what FetchWindowSize and GetWindowInputScale may give the motion handler
WinSizes == {<<0, 0>>, <<4, 2>>, <<4, 0>>, <<-4, 2>>}
Scales == {[x |-> One, y |-> One], [x |-> RatInt(2), y |-> Rat(1, 2)]}

\* the cursor as a fraction of the window, 0 to 2, without the shift by one
MotionCursorNoShift(x, y, win, window_scale) ==
  IF win[1] > 0 /\ win[2] > 0
  THEN [x |-> RatMul(RatMul(RatDiv(x, RatInt(win[1])), RatInt(2)), window_scale.x),
        y |-> RatMul(RatMul(RatDiv(y, RatInt(win[2])), RatInt(2)), window_scale.y)]
  ELSE Vec2Zero

\* the cursor computed as if the window always had positive dimensions
MotionCursorNoSizeCheck(x, y, win, window_scale) ==
  [x |-> IF win[1] = 0 THEN Zero
         ELSE RatMul(RatSub(RatMul(RatDiv(x, RatInt(win[1])), RatInt(2)), One),
                     window_scale.x),
   y |-> IF win[2] = 0 THEN Zero
         ELSE RatMul(RatSub(RatMul(RatDiv(y, RatInt(win[2])), RatInt(2)), One),
                     window_scale.y)]

\* the cursor a motion at (x, y) gives for window size win and input scale
MotionCursor(x, y, win, window_scale) ==
  IF win[1] > 0 /\ win[2] > 0
  THEN [x |-> RatMul(RatSub(RatMul(RatDiv(x, RatInt(win[1])), RatInt(2)), One),
                     window_scale.x),
        y |-> RatMul(RatSub(RatMul(RatDiv(y, RatInt(win[2])), RatInt(2)), One),
                     window_scale.y)]
  ELSE Vec2Zero

wl_pointer_listener_motion ==
  /\ SeatEvent("motion")
  /\ inbox' = Tail(inbox)
  /\ \E win \in WinSizes, window_scale \in Scales :
       devs' = IF devs[ev.dev].m_in_surface
               THEN [devs EXCEPT ![ev.dev].cursor = MotionCursor(ev.x, ev.y, win, window_scale)]
               ELSE devs
  /\ UNCHANGED <<atomic_vars, dtor_log, last_caps>>
  /\ UNCHANGED <<proxy_vars, obj_vars, requests, wire, conn_err, srv_vars, host_devices,
                 stack, iter, used, crashed>>

\* the masks m_state.buttons may hold after 1 << (button - 0x110) is applied;
\* a shift count of 32 or more is undefined: the mask is left alone or the
\* count is taken modulo 32
ButtonMasks(buttons, button, state) ==
  LET shift == button - ButtonBase
      apply(b) == IF state = "pressed" THEN buttons \cup {b} ELSE buttons \ {b}
  IN \* unsigned: a button below the base wraps to a count far above 31
     IF shift >= 0 /\ shift < 32 THEN {apply(shift)} ELSE {buttons, apply(shift % 32)}

wl_pointer_listener_button ==
  /\ SeatEvent("button")
  /\ inbox' = Tail(inbox)
  /\ \E m \in ButtonMasks(devs[ev.dev].buttons, ev.button, ev.state) :
       devs' = [devs EXCEPT ![ev.dev].buttons = m]
  /\ UNCHANGED <<atomic_vars, dtor_log, last_caps>>
  /\ UNCHANGED <<proxy_vars, obj_vars, requests, wire, conn_err, srv_vars, host_devices,
                 stack, iter, used, crashed>>

\* the accumulator overwritten by the event
AxisAccumLast(accum_axis, axis, value) ==
  IF axis = "horizontal"
  THEN [accum_axis EXCEPT !.x = value]
  ELSE [accum_axis EXCEPT !.y = value]

\* the body of wl_pointer_listener_axis
AxisAccum(accum_axis, axis, value) ==
  IF axis = "horizontal"
  THEN [accum_axis EXCEPT !.x = RatAdd(@, value)]
  ELSE [accum_axis EXCEPT !.y = RatAdd(@, value)]

wl_pointer_listener_axis ==
  /\ SeatEvent("axis")
  /\ inbox' = Tail(inbox)
  /\ devs' = [devs EXCEPT ![ev.dev].accum_axis = AxisAccum(@, ev.axis, ev.value)]
  /\ UNCHANGED <<atomic_vars, dtor_log, last_caps>>
  /\ UNCHANGED <<proxy_vars, obj_vars, requests, wire, conn_err, srv_vars, host_devices,
                 stack, iter, used, crashed>>

----------------------------------------------------------------------------
(* UpdateInput *)

\* one axis of the smoothing step
\* the weighted sum without the division by MOUSE_AXIS_SMOOTHING + 1
SmoothNoDivide(axis, accum) ==
  RatAdd(RatMul(axis, MOUSE_AXIS_SMOOTHING), accum)

\* the plain average of the old value and the delta, whatever the weight
SmoothByAverage(S, axis, accum) ==
  RatDiv(RatAdd(axis, accum), RatInt(2))

\* axis *= S; axis += accum; axis /= S + 1
SmoothBy(S, axis, accum) ==
  RatDiv(RatAdd(RatMul(axis, S), accum), RatAdd(S, One))

Smooth(axis, accum) == SmoothBy(MOUSE_AXIS_SMOOTHING, axis, accum)

\* the liveness check of UpdateInput
StillValidRevive(s) == HasSeatId(s.m_seat_id)
StillValidNoCheck(s) == s.m_valid
StillValid(s) == IF ~HasSeatId(s.m_seat_id) THEN FALSE ELSE s.m_valid

\* the accumulator zeroed before the smoothing
UpdateInputRestResetFirst(s) ==
  [s EXCEPT !.axis = [x |-> Smooth(s.axis.x, Zero), y |-> Smooth(s.axis.y, Zero)],
            !.accum_axis = Vec2Zero,
            !.m_valid = StillValid(s)]

\* Seat::UpdateInput after its Roundtrip
\* the rest of UpdateInput with a reset of the whole State record
UpdateInputRestResetState(s) ==
  [s EXCEPT !.axis = [x |-> Smooth(s.axis.x, s.accum_axis.x),
                      y |-> Smooth(s.axis.y, s.accum_axis.y)],
            !.accum_axis = Vec2Zero,
            !.buttons = {},
            !.cursor = Vec2Zero,
            !.m_valid = StillValid(s)]

UpdateInputRest(s) ==
  [s EXCEPT !.axis = [x |-> Smooth(s.axis.x, s.accum_axis.x),
                      y |-> Smooth(s.axis.y, s.accum_axis.y)],
            !.accum_axis = Vec2Zero,
            !.m_valid = StillValid(s)]

\* the host polls a device it holds
CallUpdateInput ==
  /\ ~crashed /\ Idle
  /\ used.update < MaxUpdate
  /\ \E i \in 1..Len(host_devices) :
       stack' = <<Frame("UpdateInput", "rt", host_devices[i])>>
  /\ used' = [used EXCEPT !.update = @ + 1]
  /\ UNCHANGED <<atomic_vars, dtor_log, last_caps>>
  /\ UNCHANGED <<proxy_vars, obj_vars, net_vars, conn_err, srv_vars, devs, host_devices,
                 iter, crashed>>

UpdateInput ==
  /\ ~crashed /\ ~Idle
  /\ Top.op = "UpdateInput" /\ Top.pc = "resume"
  /\ devs' = [devs EXCEPT ![Top.dev] = UpdateInputRest(devs[Top.dev])]
  /\ stack' = Pop
  /\ UNCHANGED <<atomic_vars, dtor_log, last_caps>>
  /\ UNCHANGED <<proxy_vars, obj_vars, net_vars, conn_err, srv_vars, host_devices, iter,
                 used, crashed>>

----------------------------------------------------------------------------
(* PopulateDevices and the Seat constructor *)

CallPopulateDevices ==
  /\ ~crashed /\ Idle
  /\ used.populate < MaxPopulate
  /\ stack' = <<Frame("PopulateDevices", "rt", Null)>>
  /\ used' = [used EXCEPT !.populate = @ + 1]
  /\ UNCHANGED <<atomic_vars, dtor_log, last_caps>>
  /\ UNCHANGED <<proxy_vars, obj_vars, net_vars, conn_err, srv_vars, devs, host_devices,
                 iter, crashed>>

AtLoop == ~crashed /\ ~Idle /\ Top.op = "PopulateDevices" /\ Top.pc = "resume"

\* the elements the range-for has still to visit
Remaining == IF iter.active THEN iter.todo ELSE DOMAIN m_seat_ids

\* WaylandProxy::BindSeat: null without a registry
BindSeat(seat_id, seat_version) == m_registry # Null

\* one pass of the range-for: make_shared<Seat>(seat.first, seat.second, hwnd)
\* up to the Roundtrip of the constructor
PopulateDevicesNext ==
  /\ AtLoop
  /\ iter.valid
  /\ \E id \in Remaining :
       /\ devs' = Append(devs, NewSeat(id, m_seat_ids[id], BindSeat(id, m_seat_ids[id])))
       /\ requests' = IF BindSeat(id, m_seat_ids[id])
                      THEN Append(requests, ReqBind(Len(devs) + 1, id, m_seat_ids[id]))
                      ELSE requests
       /\ iter' = [active |-> TRUE, cur |-> id, todo |-> Remaining \ {id}, valid |-> TRUE,
                   modified |-> iter.modified,
                   begin |-> IF iter.active THEN iter.begin ELSE DOMAIN m_seat_ids,
                   made |-> Append(iter.made, id)]
       /\ stack' = Append(SetTop([Top EXCEPT !.pc = "in_ctor"]),
                          Frame("Seat", "rt", Len(devs) + 1))
  /\ UNCHANGED <<atomic_vars, dtor_log, last_caps>>
  /\ UNCHANGED <<proxy_vars, obj_vars, wire, inbox, conn_err, srv_vars, host_devices, used,
                 crashed>>

\* the range-for is at end(), or its iterator went invalid under it (its
\* element was erased): advancing it then reads freed memory
PopulateDevicesEnd ==
  /\ AtLoop
  /\ \/ /\ iter.valid /\ Remaining = {}
        /\ stack' = Pop
        /\ iter' = NoIter
        /\ UNCHANGED crashed
     \/ /\ ~iter.valid
        /\ \/ /\ crashed' = TRUE
              /\ UNCHANGED <<stack, iter>>
           \/ /\ stack' = Pop
              /\ iter' = NoIter
              /\ UNCHANGED crashed
  /\ UNCHANGED <<atomic_vars, dtor_log, last_caps>>
  /\ UNCHANGED <<proxy_vars, obj_vars, net_vars, conn_err, srv_vars, devs, host_devices,
                 used>>

\* the end of Seat::Seat, and AddDevice of the finished object
SeatConstructed ==
  /\ ~crashed /\ ~Idle
  /\ Top.op = "Seat" /\ Top.pc = "resume"
  /\ devs' = [devs EXCEPT ![Top.dev].m_constructed = TRUE]
  /\ host_devices' = Append(host_devices, Top.dev)
  /\ stack' = PopResume
  /\ UNCHANGED <<atomic_vars, dtor_log, last_caps>>
  /\ UNCHANGED <<proxy_vars, obj_vars, net_vars, conn_err, srv_vars, iter, used, crashed>>

----------------------------------------------------------------------------
(* Seat::~Seat *)

\* wl_pointer_release and wl_keyboard_release exist since version 3 of the
\* interfaces, wl_seat_release since version 5
WL_POINTER_RELEASE_SINCE_VERSION == 3
WL_KEYBOARD_RELEASE_SINCE_VERSION == 3
WL_SEAT_RELEASE_SINCE_VERSION == 5

\* the proxies made by wl_seat_get_pointer and wl_seat_get_keyboard have the
\* version of the wl_seat proxy
wl_proxy_get_version(s) == s.seat_version

\* a destructor that does not test the handles before releasing them
SeatReleasesUnguarded(s) ==
  (IF s.m_keystate THEN << <<"keystate", "xkb_state_unref">> >> ELSE <<>>) \o
  (IF s.m_keymap # NoLayout THEN << <<"keymap", "xkb_keymap_unref">> >> ELSE <<>>) \o
  (IF s.m_xkb THEN << <<"xkb", "xkb_context_unref">> >> ELSE <<>>) \o
  << <<"pointer", IF wl_proxy_get_version(s) >= WL_POINTER_RELEASE_SINCE_VERSION
                  THEN "wl_pointer_release" ELSE "wl_pointer_destroy">> >> \o
  << <<"keyboard", IF wl_proxy_get_version(s) >= WL_KEYBOARD_RELEASE_SINCE_VERSION
                   THEN "wl_keyboard_release" ELSE "wl_keyboard_destroy">> >> \o
  << <<"seat", IF wl_proxy_get_version(s) >= WL_SEAT_RELEASE_SINCE_VERSION
               THEN "wl_seat_release" ELSE "wl_seat_destroy">> >>

\* a destructor that deletes the keyboard before the pointer
SeatReleasesKeyboardFirst(s) ==
  (IF s.m_keystate THEN << <<"keystate", "xkb_state_unref">> >> ELSE <<>>) \o
  (IF s.m_keymap # NoLayout THEN << <<"keymap", "xkb_keymap_unref">> >> ELSE <<>>) \o
  (IF s.m_xkb THEN << <<"xkb", "xkb_context_unref">> >> ELSE <<>>) \o
  (IF s.m_keyboard
   THEN << <<"keyboard", IF wl_proxy_get_version(s) >= WL_KEYBOARD_RELEASE_SINCE_VERSION
                         THEN "wl_keyboard_release" ELSE "wl_keyboard_destroy">> >>
   ELSE <<>>) \o
  (IF s.m_pointer
   THEN << <<"pointer", IF wl_proxy_get_version(s) >= WL_POINTER_RELEASE_SINCE_VERSION
                        THEN "wl_pointer_release" ELSE "wl_pointer_destroy">> >>
   ELSE <<>>) \o
  (IF s.m_seat
   THEN << <<"seat", IF wl_proxy_get_version(s) >= WL_SEAT_RELEASE_SINCE_VERSION
                     THEN "wl_seat_release" ELSE "wl_seat_destroy">> >>
   ELSE <<>>)

\* the calls of Seat::~Seat, in its order: ClearKeymap(), xkb_context_unref,
\* DeletePointer(), DeleteKeyboard(), DeleteSeat()
SeatReleases(s) ==
  (IF s.m_keystate THEN << <<"keystate", "xkb_state_unref">> >> ELSE <<>>) \o
  (IF s.m_keymap # NoLayout THEN << <<"keymap", "xkb_keymap_unref">> >> ELSE <<>>) \o
  (IF s.m_xkb THEN << <<"xkb", "xkb_context_unref">> >> ELSE <<>>) \o
  (IF s.m_pointer
   THEN << <<"pointer", IF wl_proxy_get_version(s) >= WL_POINTER_RELEASE_SINCE_VERSION
                        THEN "wl_pointer_release" ELSE "wl_pointer_destroy">> >>
   ELSE <<>>) \o
  (IF s.m_keyboard
   THEN << <<"keyboard", IF wl_proxy_get_version(s) >= WL_KEYBOARD_RELEASE_SINCE_VERSION
                         THEN "wl_keyboard_release" ELSE "wl_keyboard_destroy">> >>
   ELSE <<>>) \o
  (IF s.m_seat
   THEN << <<"seat", IF wl_proxy_get_version(s) >= WL_SEAT_RELEASE_SINCE_VERSION
                     THEN "wl_seat_release" ELSE "wl_seat_destroy">> >>
   ELSE <<>>)

\* the members the destructor leaves null
Destructed(s) ==
  [ClearKeymap(s) EXCEPT !.m_pointer = FALSE, !.m_keyboard = FALSE, !.m_seat = FALSE]

\* the host drops the last reference to a device it holds: Seat::~Seat.  The
\* proxies of the device are gone with it, so events for them reach no
\* listener, and the compositor drops the resources.
SeatDestructor ==
  /\ ~crashed /\ Idle
  /\ \E i \in 1..Len(host_devices) :
       LET d == host_devices[i]
           calls == SeatReleases(devs[d])
       IN /\ dtor_log' = dtor_log \o [k \in 1..Len(calls) |-> <<d>> \o calls[k]]
          /\ devs' = [devs EXCEPT ![d] = Destructed(devs[d])]
          /\ host_devices' = SubSeq(host_devices, 1, i - 1) \o
                              SubSeq(host_devices, i + 1, Len(host_devices))
          /\ srv_res' = {r \in srv_res : r[1] # d}
          /\ wire' = SelectSeq(wire, LAMBDA e : ~("dev" \in DOMAIN e /\ e.dev = d))
          /\ inbox' = SelectSeq(inbox, LAMBDA e : ~("dev" \in DOMAIN e /\ e.dev = d))
  /\ UNCHANGED <<atomic_vars, last_caps>>
  /\ UNCHANGED <<proxy_vars, obj_vars, requests, conn_err, srv_globals, srv_reg, stack, iter,
                 used, crashed>>

----------------------------------------------------------------------------
(* The compositor *)

\* the versions of wl_seat a compositor offers: the one it starts with, or 1
SeatVersions(id) == {AdvertisedVersion(id), 1}
SeatGlobals(id) == {[iface |-> "wl_seat", version |-> v, caps |-> c] :
                      v \in SeatVersions(id), c \in SUBSET Capabilities}
\* the seat the compositor may have from the start
InitialGlobals(id) == {g \in SeatGlobals(id) : g.version = AdvertisedVersion(id)}
OtherGlobals(id) == {[iface |-> "wl_output", version |-> AdvertisedVersion(id), caps |-> {}]}
LiveIds == {i \in Ids : srv_globals[i].iface # "none"}
\* The client observes the compositor only when RoundtripSync reads the socket:
\* the compositor's steps are taken while a RoundtripSync waits in its loop,
\* which orders them in every way the client can tell apart.
ServerUp == InLoop /\ LoopContinues(Top) /\ ~conn_err

\* the global events a new registry object receives, in name order
GlobalEvents ==
  LET live == SelectSeq([i \in 1..MaxSeatId |-> i], LAMBDA i : i \in LiveIds)
  IN [k \in 1..Len(live) |-> EvGlobal(live[k], srv_globals[live[k]])]

\* the devices holding a resource of a kind on the seat global id, in order
Holders(id, kind) ==
  SelectSeq([d \in 1..Len(devs) |-> d],
            LAMBDA d : <<d, kind>> \in srv_res /\ devs[d].m_seat_id = id)

\* the compositor handles the oldest request of the client
ServerRequest ==
  /\ ServerUp /\ requests # <<>>
  /\ requests' = Tail(requests)
  /\ LET r == Head(requests) IN
       CASE r.type = "get_registry" ->
              /\ srv_reg' = r.reg
              /\ wire' = wire \o GlobalEvents
              /\ UNCHANGED <<srv_res, conn_err>>
         [] r.type = "sync" ->
              /\ wire' = Append(wire, EvDone(r.cb))
              /\ UNCHANGED <<srv_reg, srv_res, conn_err>>
         [] r.type = "bind" ->
              IF srv_globals[r.id].iface = "wl_seat"
              THEN /\ srv_res' = srv_res \cup {<<r.dev, "seat">>}
                   /\ wire' = wire \o <<EvCaps(r.dev, srv_globals[r.id].caps)>>
                                   \o (IF devs[r.dev].seat_version >= 2
                                       THEN <<EvName(r.dev, AdvertisedName(r.id))>>
                                       ELSE <<>>)
                   /\ UNCHANGED <<srv_reg, conn_err>>
              ELSE \* the global is gone: the bind is ignored or a protocol error
                   /\ conn_err' \in BOOLEAN
                   /\ UNCHANGED <<srv_reg, srv_res, wire>>
         [] r.type = "get_pointer" ->
              /\ srv_res' = srv_res \cup {<<r.dev, "pointer">>}
              /\ UNCHANGED <<srv_reg, wire, conn_err>>
         [] r.type = "get_keyboard" ->
              /\ srv_res' = srv_res \cup {<<r.dev, "keyboard">>}
              /\ \E kms \in {<<>>} \cup {<<EvKeymap(r.dev, km)>> : km \in Keymaps} :
                   wire' = wire \o kms
              /\ UNCHANGED <<srv_reg, conn_err>>
  /\ UNCHANGED <<atomic_vars, dtor_log, last_caps>>
  /\ UNCHANGED <<proxy_vars, obj_vars, inbox, srv_globals, devs, host_devices, stack, iter,
                 used, crashed>>

\* An event sent on the compositor's own initiative is placed at the head of
\* what the client reads next; the client may read after any step of the
\* compositor, so the event can come before or after any other event.
Spontaneous == ServerUp /\ wire = <<>> /\ used.srv < MaxServerEvents
Spend == used' = [used EXCEPT !.srv = @ + 1]

\* a global appears under a name not in use, one of the names up to MaxEarlyId
ServerGlobal ==
  /\ Spontaneous /\ Spend
  /\ \E id \in Ids \ LiveIds :
     \E g \in SeatGlobals(id) \cup OtherGlobals(id) :
       /\ id <= MaxEarlyId
       /\ srv_globals' = [srv_globals EXCEPT ![id] = g]
       /\ wire' = IF srv_reg # Null THEN Append(wire, EvGlobal(id, g)) ELSE wire
  /\ UNCHANGED <<atomic_vars, dtor_log, last_caps>>
  /\ UNCHANGED <<proxy_vars, obj_vars, requests, inbox, conn_err, srv_reg, srv_res, devs,
                 host_devices, stack, iter, crashed>>

\* a global appears under one of the higher names while PopulateDevices is in
\* its loop over the seat map
ServerGlobalLate ==
  /\ Spontaneous /\ Spend
  /\ iter.active
  /\ \E id \in Ids \ LiveIds :
     \E g \in SeatGlobals(id) \cup OtherGlobals(id) :
       /\ id > MaxEarlyId
       /\ srv_globals' = [srv_globals EXCEPT ![id] = g]
       /\ wire' = IF srv_reg # Null THEN Append(wire, EvGlobal(id, g)) ELSE wire
  /\ UNCHANGED <<atomic_vars, dtor_log, last_caps>>
  /\ UNCHANGED <<proxy_vars, obj_vars, requests, inbox, conn_err, srv_reg, srv_res, devs,
                 host_devices, stack, iter, crashed>>

ServerGlobalRemove ==
  /\ Spontaneous /\ Spend
  /\ \E id \in LiveIds :
       /\ srv_globals' = [srv_globals EXCEPT ![id] = NoGlobal]
       /\ wire' = IF srv_reg # Null THEN Append(wire, EvGlobalRemove(id)) ELSE wire
  /\ UNCHANGED <<atomic_vars, dtor_log, last_caps>>
  /\ UNCHANGED <<proxy_vars, obj_vars, requests, inbox, conn_err, srv_reg, srv_res, devs,
                 host_devices, stack, iter, crashed>>

\* a seat gains or loses capabilities
ServerCapabilities ==
  /\ Spontaneous /\ Spend
  /\ \E id \in LiveIds, c \in SUBSET Capabilities :
       /\ srv_globals[id].iface = "wl_seat" /\ c # srv_globals[id].caps
       /\ srv_globals' = [srv_globals EXCEPT ![id].caps = c]
       /\ wire' = wire \o [k \in 1..Len(Holders(id, "seat")) |->
                             EvCaps(Holders(id, "seat")[k], c)]
  /\ UNCHANGED <<atomic_vars, dtor_log, last_caps>>
  /\ UNCHANGED <<proxy_vars, obj_vars, requests, inbox, conn_err, srv_reg, srv_res, devs,
                 host_devices, stack, iter, crashed>>

\* the input events the compositor sends in this specification
Buttons == {273}
MotionXY == {<<RatInt(4), RatInt(1)>>}
AxisValues == {RatInt(1)}
KeyStates == {"pressed", "released"}

PointerEvents(d) ==
  {EvEnter(d, sf) : sf \in Surfaces} \cup {EvLeave(d, sf) : sf \in Surfaces} \cup
  {EvMotion(d, xy) : xy \in MotionXY} \cup
  {EvButton(d, b, st) : b \in Buttons, st \in KeyStates} \cup
  {EvAxis(d, ax, v) : ax \in {"horizontal", "vertical"}, v \in AxisValues}

KeyboardEvents(d) ==
  {EvKey(d, 1, st) : st \in KeyStates} \cup {EvKey(d, 9, "pressed")} \cup
  {EvKeymap(d, Keymap("xkb_v1", TRUE, LayoutA))}

HasCap(d, kind) ==
  /\ <<d, kind>> \in srv_res
  /\ kind \in srv_globals[devs[d].m_seat_id].caps

ServerPointer ==
  /\ Spontaneous /\ Spend
  /\ \E d \in DevIds :
       /\ HasCap(d, "pointer")
       /\ \E e \in PointerEvents(d) : wire' = Append(wire, e)
  /\ UNCHANGED <<atomic_vars, dtor_log, last_caps>>
  /\ UNCHANGED <<proxy_vars, obj_vars, requests, inbox, conn_err, srv_vars, devs,
                 host_devices, stack, iter, crashed>>

ServerKeyboard ==
  /\ Spontaneous /\ Spend
  /\ \E d \in DevIds :
       /\ HasCap(d, "keyboard")
       /\ \E e \in KeyboardEvents(d) : wire' = Append(wire, e)
  /\ UNCHANGED <<atomic_vars, dtor_log, last_caps>>
  /\ UNCHANGED <<proxy_vars, obj_vars, requests, inbox, conn_err, srv_vars, devs,
                 host_devices, stack, iter, crashed>>

\* the pointer events of the input specification: both surfaces, positions in
\* and outside a window of 4 x 2, the first two buttons and the first code
\* past the 32 of the mask (0x130), scroll deltas of both signs
InputButtons == {272, 273, 304}
InputMotionXY == {<<RatInt(1), RatInt(2)>>, <<RatInt(6), RatInt(0)>>}
InputAxisValues == {RatInt(1), RatInt(-1), Rat(1, 2)}
InputEvents(d) ==
  {EvEnter(d, sf) : sf \in Surfaces} \cup {EvLeave(d, sf) : sf \in Surfaces} \cup
  {EvMotion(d, xy) : xy \in InputMotionXY} \cup
  {EvButton(d, b, st) : b \in InputButtons, st \in KeyStates} \cup
  {EvAxis(d, ax, v) : ax \in {"horizontal", "vertical"}, v \in InputAxisValues}

\* a pointer event, queued behind whatever the client has not read yet
ServerInput ==
  /\ ServerUp /\ used.srv < MaxInputEvents /\ Spend
  /\ \E d \in DevIds :
       /\ HasCap(d, "pointer")
       /\ \E e \in InputEvents(d) : wire' = Append(wire, e)
  /\ UNCHANGED <<atomic_vars, dtor_log, last_caps>>
  /\ UNCHANGED <<proxy_vars, obj_vars, requests, inbox, conn_err, srv_vars, devs,
                 host_devices, stack, iter, crashed>>

----------------------------------------------------------------------------
(* Common::AtomicInt2D *)

\* static_cast<u32>(int): the 32 bits as two 16-bit halves <<high, low>>
U32(x) ==
  IF x >= 0 THEN <<x \div 65536, x % 65536>>
  ELSE LET y == -(x + 1) IN <<65535 - (y \div 65536), 65535 - (y % 65536)>>

\* static_cast<s32>(u32)
S32(u) ==
  IF u[1] >= 32768 THEN -((65535 - u[1]) * 65536 + (65535 - u[2])) - 1
  ELSE u[1] * 65536 + u[2]

\* union Bits: m_hex seen through its bit fields m_width (bits 0..31) and
\* m_height (bits 32..63)
Bits(m_width, m_height) == [m_width |-> m_width, m_height |-> m_height]
UINT64_MAX == Bits(<<65535, 65535>>, <<65535, 65535>>)

\* the ints a caller may store
AtomicInts == {-2147483647 - 1, -1, 0, 1280}

\* ghost: op is the last call, ret, width_out and height_out what a Fetch gave,
\* stored the arguments of the most recent Store, pending whether a Store has
\* been performed since the previous Fetch, and was_pending the value pending
\* had when the last Fetch was called
NoCall == [op |-> "none", ret |-> FALSE, width_out |-> 0, height_out |-> 0,
           stored |-> <<>>, pending |-> FALSE, was_pending |-> FALSE]

\* AtomicInt2D() = default, with the member initializers
AtomicInt2D ==
  /\ m_val = UINT64_MAX
  /\ m_fetched_width = 0 /\ m_fetched_height = 0
  /\ atomic_log = NoCall

Store ==
  /\ \E width \in AtomicInts, height \in AtomicInts :
       /\ m_val' = Bits(U32(width), U32(height))
       /\ atomic_log' = [atomic_log EXCEPT !.op = "Store", !.stored = <<width, height>>,
                                           !.pending = TRUE]
  /\ UNCHANGED <<m_fetched_width, m_fetched_height>>
  /\ UNCHANGED <<proxy_vars, obj_vars, net_vars, conn_err, srv_vars, devs, host_devices,
                 stack, iter, used, crashed, dtor_log, last_caps>>

\* compare_exchange_strong(b.m_hex, UINT64_MAX) with b.m_hex = UINT64_MAX:
\* it succeeds when m_val is UINT64_MAX and writes UINT64_MAX; otherwise it
\* fails, copies m_val into b and leaves m_val as it is
Fetch ==
  /\ IF m_val = UINT64_MAX
     THEN /\ atomic_log' = [atomic_log EXCEPT !.op = "Fetch", !.ret = FALSE,
                                              !.width_out = m_fetched_width,
                                              !.height_out = m_fetched_height,
                                              !.pending = FALSE,
                                              !.was_pending = atomic_log.pending]
          /\ UNCHANGED <<m_val, m_fetched_width, m_fetched_height>>
     ELSE /\ m_fetched_width' = S32(m_val.m_width)
          /\ m_fetched_height' = S32(m_val.m_height)
          /\ atomic_log' = [atomic_log EXCEPT !.op = "Fetch", !.ret = TRUE,
                                              !.width_out = S32(m_val.m_width),
                                              !.height_out = S32(m_val.m_height),
                                              !.pending = FALSE,
                                              !.was_pending = atomic_log.pending]
          /\ UNCHANGED m_val
  /\ UNCHANGED <<proxy_vars, obj_vars, net_vars, conn_err, srv_vars, devs, host_devices,
                 stack, iter, used, crashed, dtor_log, last_caps>>

----------------------------------------------------------------------------
(* The system *)

NoBudget == [init |-> 0, populate |-> 0, update |-> 0, srv |-> 0, faults |-> 0]

\* before Init: a null proxy; the compositor advertises a seat under name 1, or nothing
Init ==
  /\ m_display = Null /\ m_queue = Null /\ m_display_wrapper = Null /\ m_registry = Null
  /\ m_seat_ids = EmptyMap
  /\ adv = NoAdv
  /\ next_obj = 1 /\ destroyed = <<>> /\ finish_log = <<>>
  /\ requests = <<>> /\ wire = <<>> /\ inbox = <<>>
  /\ conn_err = FALSE
  /\ srv_globals \in {[i \in Ids |-> IF i = 1 THEN g ELSE NoGlobal] :
                        g \in InitialGlobals(1) \cup {NoGlobal}}
  /\ srv_reg = Null /\ srv_res = {}
  /\ devs = <<>> /\ host_devices = <<>>
  /\ stack = <<>> /\ iter = NoIter
  /\ used = NoBudget
  /\ crashed = FALSE
  /\ AtomicInt2D
  /\ dtor_log = <<>>
  /\ last_caps = EmptyMap

Next ==
  \/ CallInit
  \/ CallDeInit
  \/ CallPopulateDevices
  \/ CallUpdateInput
  \/ Roundtrip
  \/ RoundtripSyncDispatch
  \/ DispatchReturn
  \/ RoundtripReturn
  \/ SyncCallback
  \/ wl_registry_listener_global
  \/ wl_registry_listener_global_remove
  \/ wl_seat_listener_capabilities
  \/ wl_seat_listener_capabilities_keys
  \/ wl_seat_listener_name
  \/ wl_keyboard_listener_keymap
  \/ wl_keyboard_listener_key
  \/ wl_pointer_listener_enter
  \/ wl_pointer_listener_leave
  \/ wl_pointer_listener_motion
  \/ wl_pointer_listener_button
  \/ wl_pointer_listener_axis
  \/ UpdateInput
  \/ PopulateDevicesNext
  \/ PopulateDevicesEnd
  \/ SeatConstructed
  \/ ServerRequest
  \/ ServerGlobal
  \/ ServerGlobalRemove
  \/ ServerCapabilities
  \/ ServerPointer
  \/ ServerKeyboard

Spec == Init /\ [][Next]_vars

\* The steps of the client thread inside a call of the host.  The thread runs
\* until it blocks in wl_display_dispatch_queue, and the compositor serves the
\* requests it has received: both are weakly fair.
ClientStep ==
  \/ Roundtrip
  \/ RoundtripSyncDispatch
  \/ DispatchReturn
  \/ RoundtripReturn
  \/ SyncCallback
  \/ wl_registry_listener_global
  \/ wl_registry_listener_global_remove
  \/ wl_seat_listener_capabilities
  \/ wl_seat_listener_capabilities_keys
  \/ wl_seat_listener_name
  \/ wl_keyboard_listener_keymap
  \/ UpdateInput
  \/ PopulateDevicesNext
  \/ PopulateDevicesEnd
  \/ SeatConstructed

\* the calls of the host, the client thread and a compositor that answers
\* requests and withdraws globals, without input events
LiveNext ==
  \/ CallInit
  \/ CallDeInit
  \/ CallPopulateDevices
  \/ CallUpdateInput
  \/ ClientStep
  \/ ServerRequest
  \/ ServerGlobalRemove

SpecLive == Init /\ [][LiveNext]_vars /\ WF_vars(ClientStep) /\ WF_vars(ServerRequest)

\* the same with a host that also destroys devices it holds, and a compositor
\* whose seats appear at either version and change their capabilities
DtorNext ==
  \/ LiveNext
  \/ ServerGlobal
  \/ ServerCapabilities
  \/ SeatDestructor

SpecDtor == Init /\ [][DtorNext]_vars

\* the AtomicInt2D object alone, under any sequence of calls
AtomicNext ==
  \/ Store
  \/ Fetch

SpecAtomic == Init /\ [][AtomicNext]_vars

\* Input: the state after Init and a PopulateDevices that found one seat with a
\* pointer; the host polls the Seat and the compositor sends pointer events
InputInit ==
  /\ m_display = 1 /\ m_queue = 1 /\ m_display_wrapper = 2 /\ m_registry = 3
  /\ m_seat_ids = MapPut(EmptyMap, 1, max_wl_seat_version)
  /\ adv = AdvGlobal(NoAdv, 1, "wl_seat")
  /\ next_obj = 4 /\ destroyed = <<>> /\ finish_log = <<>>
  /\ requests = <<ReqGetPointer(1)>> /\ wire = <<>> /\ inbox = <<>>
  /\ conn_err = FALSE
  /\ srv_globals = [i \in Ids |->
                      IF i = 1 THEN [iface |-> "wl_seat", version |-> AdvertisedVersion(1),
                                     caps |-> {"pointer"}]
                      ELSE NoGlobal]
  /\ srv_reg = 3 /\ srv_res = {<<1, "seat">>}
  /\ devs = <<[NewSeat(1, max_wl_seat_version, TRUE)
                EXCEPT !.m_pointer = TRUE, !.inputs = PointerControls,
                       !.name = AdvertisedName(1), !.m_constructed = TRUE]>>
  /\ host_devices = <<1>>
  /\ stack = <<>> /\ iter = NoIter
  /\ used = [NoBudget EXCEPT !.init = 1, !.populate = 1]
  /\ crashed = FALSE
  /\ AtomicInt2D
  /\ dtor_log = <<>>
  /\ last_caps = MapPut(EmptyMap, 1, {"pointer"})

InputNext ==
  \/ CallUpdateInput
  \/ Roundtrip
  \/ RoundtripSyncDispatch
  \/ DispatchReturn
  \/ RoundtripReturn
  \/ SyncCallback
  \/ wl_pointer_listener_enter
  \/ wl_pointer_listener_leave
  \/ wl_pointer_listener_motion
  \/ wl_pointer_listener_button
  \/ wl_pointer_listener_axis
  \/ UpdateInput
  \/ ServerRequest
  \/ ServerInput

SpecInput == InputInit /\ [][InputNext]_vars

\* Enumeration: Init and PopulateDevices against a compositor that adds and
\* removes globals, also under higher names while the Seats are constructed
EnumNext ==
  \/ CallInit
  \/ CallPopulateDevices
  \/ Roundtrip
  \/ RoundtripSyncDispatch
  \/ DispatchReturn
  \/ RoundtripReturn
  \/ SyncCallback
  \/ wl_registry_listener_global
  \/ wl_registry_listener_global_remove
  \/ wl_seat_listener_capabilities
  \/ wl_seat_listener_capabilities_keys
  \/ wl_seat_listener_name
  \/ wl_keyboard_listener_keymap
  \/ PopulateDevicesNext
  \/ PopulateDevicesEnd
  \/ SeatConstructed
  \/ ServerRequest
  \/ ServerGlobal
  \/ ServerGlobalLate
  \/ ServerGlobalRemove

SpecEnum == Init /\ [][EnumNext]_vars


-----------------------------------------------------------------------------
(* Properties of the Seat device *)

\* C1: once a Seat's construction has finished, no step (capability, keymap,
\* input or registry event, UpdateInput) changes its list of inputs, its
\* pointer/keyboard objects, its keymap or its key bitmap allocation: of the
\* device-level attributes only m_valid can change.
C1_ControlsFixed ==
  [][\A d \in DevIds :
       devs[d].m_constructed =>
         /\ d \in 1..Len(devs')
         /\ devs'[d].inputs = devs[d].inputs
         /\ devs'[d].m_constructed
         /\ devs'[d].m_seat_id = devs[d].m_seat_id
         /\ devs'[d].seat_version = devs[d].seat_version
         /\ devs'[d].m_seat = devs[d].m_seat
         /\ devs'[d].m_pointer = devs[d].m_pointer
         /\ devs'[d].m_keyboard = devs[d].m_keyboard
         /\ devs'[d].m_xkb = devs[d].m_xkb
         /\ devs'[d].m_keymap = devs[d].m_keymap
         /\ devs'[d].m_keystate = devs[d].m_keystate
         /\ devs'[d].keyboard.len = devs[d].keyboard.len]_vars

\* a constructed Seat without a pointer whose seat has gained the pointer
\* capability, the event delivered and a later UpdateInput returned
C1_Witness ==
  \E d \in DevIds :
    /\ devs[d].m_constructed /\ devs[d].m_valid
    /\ ~devs[d].m_pointer
    /\ HasSeatId(devs[d].m_seat_id)
    /\ "pointer" \in srv_globals[devs[d].m_seat_id].caps
    /\ used.srv = 1 /\ used.update = 1
    /\ Idle /\ wire = <<>> /\ inbox = <<>> /\ ~crashed

\* C2: a Seat whose m_valid is false never becomes valid again, whatever is
\* advertised or delivered afterwards.
C2_InvalidIsTerminal ==
  [][\A d \in DevIds :
       ~devs[d].m_valid => d \in 1..Len(devs') /\ ~devs'[d].m_valid]_vars

\* an invalid Seat whose seat id is in the seat set again and whose seat offers
\* every capability the Seat had bound, after a second UpdateInput
C2_Witness ==
  \E d \in DevIds :
    /\ devs[d].m_constructed /\ ~devs[d].m_valid
    /\ HasSeatId(devs[d].m_seat_id)
    /\ devs[d].m_pointer => "pointer" \in srv_globals[devs[d].m_seat_id].caps
    /\ devs[d].m_keyboard => "keyboard" \in srv_globals[devs[d].m_seat_id].caps
    /\ used.srv = 2 /\ used.update = 2
    /\ Idle /\ ~crashed

\* C3: when a capabilities event is dispatched to a constructed Seat and the
\* mask lacks a capability whose object the Seat holds, the Seat is invalid as
\* soon as the listener returns.
C3_CapabilityLossInvalidates ==
  [][(/\ Dispatching /\ ev.type = "capabilities" /\ ev.dev \in DevIds
      /\ devs[ev.dev].m_constructed
      /\ \/ devs[ev.dev].m_pointer /\ "pointer" \notin ev.caps
         \/ devs[ev.dev].m_keyboard /\ "keyboard" \notin ev.caps
      /\ inbox' = Tail(inbox))
     => ~devs'[ev.dev].m_valid]_vars

\* a Seat that kept its pointer and lost its keyboard to the one event the
\* compositor sent after construction
C3_Witness ==
  \E d \in DevIds :
    /\ devs[d].m_constructed /\ ~devs[d].m_valid
    /\ devs[d].m_pointer /\ devs[d].m_keyboard
    /\ HasSeatId(devs[d].m_seat_id)
    /\ srv_globals[devs[d].m_seat_id].caps = {"pointer"}
    /\ used.srv = 1 /\ used.faults = 0
    /\ wire = <<>> /\ inbox = <<>> /\ ~crashed

\* C4: a keymap event dispatched to a constructed Seat sets m_valid to false and
\* changes nothing else of the Seat, of the other Seats or of the proxy.
C4_KeymapAfterConstruction ==
  [][(/\ Dispatching /\ ev.type = "keymap" /\ ev.dev \in DevIds
      /\ devs[ev.dev].m_constructed
      /\ inbox' = Tail(inbox))
     => /\ devs' = [devs EXCEPT ![ev.dev].m_valid = FALSE]
        /\ UNCHANGED <<proxy_vars, obj_vars, requests, host_devices, stack, crashed>>]_vars

\* a Seat invalid although its seat id is advertised and its seat still offers
\* what the Seat bound: the one event sent after construction was a keymap
C4_Witness ==
  \E d \in DevIds :
    /\ devs[d].m_constructed /\ ~devs[d].m_valid
    /\ devs[d].m_keyboard /\ devs[d].m_keymap # NoLayout
    /\ HasSeatId(devs[d].m_seat_id)
    /\ "keyboard" \in srv_globals[devs[d].m_seat_id].caps
    /\ devs[d].m_pointer => "pointer" \in srv_globals[devs[d].m_seat_id].caps
    /\ used.srv = 1 /\ used.faults = 0 /\ used.init = 1
    /\ wire = <<>> /\ inbox = <<>> /\ ~crashed

\* C5: the step of UpdateInput that follows its Roundtrip leaves the Seat valid
\* exactly when it was valid and its seat id is in the seat set: an absent id
\* invalidates, a present id does not.
C5_LivenessCheck ==
  [][(/\ ~Idle /\ Top.op = "UpdateInput" /\ Top.pc = "resume"
      /\ stack' = Pop)
     => devs'[Top.dev].m_valid =
          (devs[Top.dev].m_valid /\ devs[Top.dev].m_seat_id \in DOMAIN m_seat_ids)]_vars

\* UpdateInput has returned on a set-up proxy with the Seat invalid: its seat
\* was withdrawn by the one event the compositor sent, nothing else was lost
C5_Witness ==
  \E d \in DevIds :
    /\ devs[d].m_constructed /\ ~devs[d].m_valid
    /\ ~HasSeatId(devs[d].m_seat_id)
    /\ srv_globals[devs[d].m_seat_id] = NoGlobal
    /\ m_queue # Null
    /\ used.srv = 1 /\ used.faults = 0 /\ used.init = 1 /\ used.update >= 1
    /\ Idle /\ ~crashed


-----------------------------------------------------------------------------
(* Properties of the proxy *)

\* C6: an UpdateInput that runs on a torn-down proxy (after Finish() through an
\* error or DeInit) dispatches nothing, its Roundtrip returning at once without
\* touching the connection, and leaves its Seat invalid.
C6_UpdateAfterTeardown ==
  [][(~Idle /\ Top.op = "UpdateInput" /\ m_queue = Null)
     => \/ /\ Top.pc = "rt"
           /\ stack' = SetTop([Top EXCEPT !.pc = "resume"])
           /\ UNCHANGED <<proxy_vars, obj_vars, net_vars, conn_err, srv_vars, devs>>
        \/ /\ Top.pc = "resume"
           /\ stack' = Pop
           /\ ~devs'[Top.dev].m_valid
           /\ UNCHANGED <<proxy_vars, obj_vars, net_vars, conn_err, srv_vars>>]_vars

\* DeInit tore the proxy down under a valid Seat, without any fault and without
\* any event from the compositor, and UpdateInput has returned since
C6_Witness ==
  \E d \in DevIds :
    /\ devs[d].m_constructed /\ ~devs[d].m_valid
    /\ m_queue = Null /\ Len(destroyed) = 3
    /\ used.faults = 0 /\ used.srv = 0 /\ used.init = 1 /\ used.update = 1
    /\ Idle /\ ~crashed

\* C7: a Roundtrip called on a set-up proxy returns to its caller either with
\* its own acknowledgement dispatched, a non-negative result and every event
\* read before that dispatched too, or after a failure with the proxy torn
\* down by Finish().
C7_RoundtripAllOrNothing ==
  [][/\ (AtCall /\ m_queue # Null /\ stack' # stack)
          => \/ /\ Len(stack') = Depth + 1
                /\ stack'[Depth + 1].op = "Roundtrip"
                /\ ~stack'[Depth + 1].done
             \/ /\ Len(stack') = Depth
                /\ m_queue' = Null /\ m_display_wrapper' = Null /\ m_registry' = Null
                /\ m_seat_ids' = EmptyMap
     /\ (InLoop /\ Len(stack') = Depth - 1)
          => \/ /\ Top.done /\ Top.ret >= 0
                /\ inbox = <<>>
                /\ \A i \in 1..Len(wire) :
                     ~(wire[i].type = "done" /\ wire[i].cb = Depth)
             \/ /\ Top.ret < 0
                /\ m_queue' = Null /\ m_display_wrapper' = Null /\ m_registry' = Null
                /\ m_seat_ids' = EmptyMap]_vars

\* the Roundtrip of a Seat constructor has returned on a proxy that is still
\* set up, the capabilities sent before its acknowledgement already handled
C7_Witness ==
  /\ ~Idle /\ Top.op = "Seat" /\ Top.pc = "resume"
  /\ m_queue # Null
  /\ devs[Top.dev].m_pointer /\ devs[Top.dev].m_keyboard
  /\ devs[Top.dev].m_keymap # NoLayout
  /\ inbox = <<>> /\ ~crashed

\* C8: a Setup that fails at any of its three creation steps leaves all handles
\* null and the seat set empty, having destroyed each object it created exactly
\* once; on a proxy without a queue Roundtrip changes nothing, BindSeat yields
\* null and PopulateDevices adds no device.
C8_FailedSetupInert ==
  [][/\ (Idle /\ used'.init = used.init + 1 /\ used'.faults = used.faults + 1)
          => /\ m_display' = Null /\ m_queue' = Null
             /\ m_display_wrapper' = Null /\ m_registry' = Null
             /\ m_seat_ids' = EmptyMap
             /\ \A o \in next_obj..(next_obj' - 1) :
                  Cardinality({i \in 1..Len(destroyed') : destroyed'[i][2] = o}) = 1
     /\ (AtCall /\ m_queue = Null)
          => /\ stack' = SetTop([Top EXCEPT !.pc = "resume"])
             /\ UNCHANGED <<proxy_vars, obj_vars, net_vars, conn_err, srv_vars, devs,
                            host_devices>>
     /\ (~Idle /\ Top.op = "PopulateDevices" /\ m_queue = Null)
          => /\ m_registry = Null
             /\ ~BindSeat(1, 1)
             /\ devs' = devs /\ host_devices' = host_devices]_vars

\* the registry could not be created, queue and wrapper were destroyed, and a
\* PopulateDevices has returned without a device although a seat is on offer
C8_Witness ==
  /\ Idle /\ ~crashed
  /\ used.init = 1 /\ used.faults = 1 /\ used.populate = 1
  /\ [i \in 1..Len(destroyed) |-> destroyed[i][1]] = <<"wrapper", "queue">>
  /\ m_queue = Null /\ m_display = Null
  /\ srv_globals[1].iface = "wl_seat"
  /\ devs = <<>>

\* C9: a Finish() on a torn-down proxy changes nothing and destroys nothing; no
\* object is ever destroyed twice; within one Finish() the registry goes before
\* the display wrapper and the wrapper before the queue.
C9_FinishOnce ==
  [][/\ \A i, j \in 1..Len(destroyed') : i # j => destroyed'[i] # destroyed'[j]
     /\ \A i, j \in 1..Len(finish_log') :
          i < j => \/ finish_log'[i] = "registry"
                   \/ finish_log'[i] = "wrapper" /\ finish_log'[j] = "queue"
     /\ (Idle /\ m_registry = Null /\ m_display_wrapper = Null /\ m_queue = Null
         /\ used' = used)
          => /\ m_registry' = Null /\ m_display_wrapper' = Null /\ m_queue' = Null
             /\ m_seat_ids' = m_seat_ids
             /\ destroyed' = destroyed]_vars

\* a Finish() that found nothing to destroy, after one that destroyed all three
C9_Witness ==
  /\ Len(destroyed) = 3
  /\ [i \in 1..3 |-> destroyed[i][1]] = <<"registry", "wrapper", "queue">>
  /\ finish_log = <<>>
  /\ m_queue = Null /\ m_display = Null


\* C10: since the last Finish(), the seat set holds exactly the ids that a
\* global event advertised as wl_seat and that no global_remove event withdrew
\* since that advertisement; a global of another interface changes nothing, even
\* for an id in the set, and a global_remove of an id outside the set changes
\* nothing.
C10_SeatSet ==
  [][/\ DOMAIN m_seat_ids' = adv'.seat
     /\ (Dispatching /\ ev.type = "global" /\ ev.iface # "wl_seat"
         /\ inbox' = Tail(inbox))
          => m_seat_ids' = m_seat_ids
     /\ (Dispatching /\ ev.type = "global_remove" /\ ev.id \notin DOMAIN m_seat_ids
         /\ inbox' = Tail(inbox))
          => m_seat_ids' = m_seat_ids]_vars

\* an id is in the seat set after a global event advertised it under another
\* interface: the proxy was set up anew over a seat set that still held the id
C10_Witness ==
  /\ HasSeatId(1) /\ adv.last[1] = "wl_output"
  /\ 1 \in adv.seat
  /\ m_queue # Null /\ ~crashed

\* C10 as stated: the seat set holds exactly the ids whose latest advertisement
\* was one of wl_seat and that were not withdrawn since.
C10_LatestAdvertisement ==
  DOMAIN m_seat_ids = {id \in Ids : adv.last[id] = "wl_seat"}


-----------------------------------------------------------------------------
(* Properties of enumeration *)

\* C11: a wl_seat global event with version v records min(v, 4) for its id; no
\* other step changes a recorded version; the bind request PopulateDevices sends
\* for an id, and the Seat it constructs, carry the recorded version: no bind
\* request carries a version above 4 or above the advertised one.
C11_VersionClamp ==
  [][/\ (Dispatching /\ ev.type = "global" /\ ev.iface = "wl_seat"
         /\ inbox' = Tail(inbox))
          => /\ ev.id \in DOMAIN m_seat_ids'
             /\ m_seat_ids'[ev.id] = (IF ev.version < 4 THEN ev.version ELSE 4)
     /\ ~(Dispatching /\ ev.type = "global")
          => \A id \in DOMAIN m_seat_ids' :
               id \in DOMAIN m_seat_ids /\ m_seat_ids'[id] = m_seat_ids[id]
     /\ (Len(requests') = Len(requests) + 1
         /\ requests'[Len(requests')].type = "bind")
          => LET r == requests'[Len(requests')]
             IN /\ r.id \in DOMAIN m_seat_ids
                /\ r.version = m_seat_ids[r.id]
                /\ devs'[r.dev].seat_version = r.version
                /\ devs'[r.dev].m_seat_id = r.id
     /\ \A i \in 1..Len(requests') :
          requests'[i].type = "bind" => requests'[i].version \in 1..4]_vars

\* the compositor has answered the bind of a Seat that was bound at version 4
\* to a seat it advertises at version 5
C11_Witness ==
  \E d \in DevIds :
    /\ devs[d].seat_version = 4
    /\ srv_globals[devs[d].m_seat_id].version = 5
    /\ srv_globals[devs[d].m_seat_id].iface = "wl_seat"
    /\ <<d, "seat">> \in srv_res
    /\ devs[d].m_constructed /\ ~crashed


\* C12: when PopulateDevices returns, the Seats it constructed are exactly one
\* for each id that was in the seat set when its Roundtrip ended: as many as
\* the set had ids, no id twice, no id from outside the set.
C12_OneSeatPerAdvertisedId ==
  [][(/\ ~Idle /\ Top.op = "PopulateDevices" /\ Top.pc = "resume"
      /\ stack' = Pop)
     => LET begin == IF iter.active THEN iter.begin ELSE DOMAIN m_seat_ids
        IN /\ Len(iter.made) = Cardinality(begin)
           /\ {iter.made[i] : i \in 1..Len(iter.made)} = begin]_vars


-----------------------------------------------------------------------------
(* Properties of the pointer state *)

\* C13: UpdateInput smooths, resets and checks liveness in one step that comes
\* after its Roundtrip: that step folds the accumulator as the Roundtrip left it
\* (5 v' = 3 v + 2 d on both axes), zeroes the accumulator and then tests the
\* seat id; before that step the call leaves the filtered value alone and every
\* scroll event it dispatches is added to the accumulator.
C13_UpdateInputOrder ==
  [][\A d \in DevIds :
       LET s == devs[d]
           t == devs'[d]
           returns == /\ ~Idle /\ Top.op = "UpdateInput" /\ Top.pc = "resume"
                      /\ Top.dev = d /\ stack' = Pop
           scrolls == /\ Dispatching /\ ev.type = "axis" /\ ev.dev = d
                      /\ inbox' = Tail(inbox)
       IN /\ returns =>
               /\ RatMul(<<5, 1>>, t.axis.x) =
                    RatAdd(RatMul(<<3, 1>>, s.axis.x), RatMul(<<2, 1>>, s.accum_axis.x))
               /\ RatMul(<<5, 1>>, t.axis.y) =
                    RatAdd(RatMul(<<3, 1>>, s.axis.y), RatMul(<<2, 1>>, s.accum_axis.y))
               /\ t.accum_axis = Vec2Zero
               /\ t.m_valid = (s.m_valid /\ s.m_seat_id \in DOMAIN m_seat_ids)
          /\ ~returns => t.axis = s.axis
          /\ scrolls =>
               RatAdd(t.accum_axis.x, t.accum_axis.y) =
                 RatAdd(RatAdd(s.accum_axis.x, s.accum_axis.y), ev.value)
          /\ (~returns /\ ~scrolls) => t.accum_axis = s.accum_axis]_vars

\* the first UpdateInput has returned with the scroll delta 1 that its own
\* Roundtrip dispatched already in the filtered value, 2/5, and nothing
\* accumulated
C13_Witness ==
  /\ Idle /\ used.update = 1 /\ used.srv = 1
  /\ devs[1].axis.x = <<2, 5>>
  /\ devs[1].accum_axis = Vec2Zero
  /\ devs[1].m_valid /\ ~crashed


\* C14: while a batch of events is dispatched, the accumulator of each axis
\* plus the sum of that axis's deltas still waiting in the batch stays what it
\* was, whatever the number and order of the events and whatever the other axis
\* receives; the next UpdateInput computes each axis from its previous filtered
\* value and its accumulator alone.  So the filtered value is a function of the
\* previous one and of the per-axis sum of the cycle.
C14_ScrollSumOnly ==
  [][\A d \in DevIds :
       LET RECURSIVE Waiting(_, _)
           Waiting(q, axis) ==
             IF q = <<>> THEN Zero
             ELSE LET rest == Waiting(Tail(q), axis)
                  IN IF Head(q).type = "axis" /\ Head(q).dev = d /\ Head(q).axis = axis
                     THEN RatAdd(Head(q).value, rest) ELSE rest
           s == devs[d]
           t == devs'[d]
       IN /\ (Dispatching /\ inbox' = Tail(inbox))
               => /\ RatAdd(t.accum_axis.x, Waiting(inbox', "horizontal")) =
                       RatAdd(s.accum_axis.x, Waiting(inbox, "horizontal"))
                  /\ RatAdd(t.accum_axis.y, Waiting(inbox', "vertical")) =
                       RatAdd(s.accum_axis.y, Waiting(inbox, "vertical"))
                  /\ t.axis = s.axis
          /\ (~Idle /\ Top.op = "UpdateInput" /\ Top.pc = "resume" /\ Top.dev = d
              /\ stack' = Pop)
               => /\ t.axis.x = RatDiv(RatAdd(RatMul(s.axis.x, <<3, 2>>), s.accum_axis.x),
                                       <<5, 2>>)
                  /\ t.axis.y = RatDiv(RatAdd(RatMul(s.axis.y, <<3, 2>>), s.accum_axis.y),
                                       <<5, 2>>)]_vars

\* two horizontal deltas, 1 and 1/2, and a vertical delta of -1 have been
\* dispatched in one poll cycle
C14_Witness ==
  /\ devs[1].accum_axis = [x |-> <<3, 2>>, y |-> <<-1, 1>>]
  /\ used.srv = 3 /\ inbox = <<>> /\ wire = <<>>
  /\ ~crashed


\* C15: the step of UpdateInput that follows its Roundtrip replaces the
\* filtered value v of each axis by (v*S + d) / (S + 1), d being the
\* accumulator of that axis and S = 3/2; no other step of the call, and no
\* other step at all, changes a filtered value, so the filter is applied once
\* per axis per call.
C15_SmoothingFormula ==
  [][\A d \in DevIds :
       LET S == <<3, 2>>
           v == devs[d].axis
           delta == devs[d].accum_axis
           applies == /\ ~Idle /\ Top.op = "UpdateInput" /\ Top.pc = "resume"
                      /\ Top.dev = d /\ stack' = Pop
       IN /\ MOUSE_AXIS_SMOOTHING = S
          /\ IF applies
             THEN /\ devs'[d].axis.x = RatDiv(RatAdd(RatMul(v.x, S), delta.x), RatAdd(S, One))
                  /\ devs'[d].axis.y = RatDiv(RatAdd(RatMul(v.y, S), delta.y), RatAdd(S, One))
                  /\ Len(stack') = Len(stack) - 1
             ELSE devs'[d].axis = v]_vars

\* a second UpdateInput has filtered a delta of 1 into a previous value of 2/5
\* on one axis and a delta of -1 into a previous value of 0 on the other
C15_Witness ==
  /\ Idle /\ used.update = 2
  /\ devs[1].axis = [x |-> <<16, 25>>, y |-> <<-2, 5>>]
  /\ ~crashed


\* C16: with d the accumulated delta of an axis, the update keeps v = d and
\* otherwise multiplies the distance |v - d| by S/(S+1), which is below 1: in
\* the returning step of UpdateInput for the smoothing constant of the code,
\* and for the same three statements with any other positive weight S.  A
\* delta repeated in every cycle therefore draws the filtered value to d.
C16_FixedPoint ==
  [][\A dev \in DevIds :
       LET Dist(a, b) == LET r == RatSub(a, b) IN <<Abs(r[1]), r[2]>>
           Factor(S) == RatDiv(S, RatAdd(S, One))
           Weights == {<<1, 2>>, <<1, 1>>, <<3, 2>>, <<4, 1>>}
           Contracts(S, v, d, w) == Dist(w, d) = RatMul(Factor(S), Dist(v, d))
           v == devs[dev].axis
           d == devs[dev].accum_axis
       IN (~Idle /\ Top.op = "UpdateInput" /\ Top.pc = "resume" /\ Top.dev = dev
           /\ stack' = Pop)
            => /\ Contracts(MOUSE_AXIS_SMOOTHING, v.x, d.x, devs'[dev].axis.x)
               /\ Contracts(MOUSE_AXIS_SMOOTHING, v.y, d.y, devs'[dev].axis.y)
               /\ v.x = d.x => devs'[dev].axis.x = d.x
               /\ v.y = d.y => devs'[dev].axis.y = d.y
               /\ \A S \in Weights :
                    /\ S[1] > 0 /\ Factor(S)[1] < Factor(S)[2]
                    /\ Contracts(S, v.x, d.x, SmoothBy(S, v.x, d.x))
                    /\ Contracts(S, v.y, d.y, SmoothBy(S, v.y, d.y))
                    /\ SmoothBy(S, d.x, d.x) = d.x
                    /\ SmoothBy(S, d.y, d.y) = d.y]_vars

\* the vertical delta was 1/2 in two consecutive cycles: the filtered value
\* went 0, 1/5, 8/25, its distance from 1/2 went 1/2, 3/10, 9/50
C16_Witness ==
  /\ Idle /\ used.update = 2
  /\ devs[1].axis.y = <<8, 25>>
  /\ devs[1].accum_axis = Vec2Zero
  /\ ~crashed


\* C17: whatever the button mask of a pointer device is, a press of a button
\* code followed by a release of the same code, each applied as
\* wl_pointer_listener_button applies it, gives the mask back.
C17_PressReleaseRoundTrip ==
  \A d \in DevIds :
    devs[d].m_pointer =>
      \A button \in InputButtons :
        \A pressed \in ButtonMasks(devs[d].buttons, button, "pressed") :
          \A released \in ButtonMasks(pressed, button, "released") :
            released = devs[d].buttons


\* C18: a motion event at (x, y) dispatched to a device whose in-surface flag
\* is set leaves the cursor at ((x/W*2-1)*scale_x, (y/H*2-1)*scale_y) for a
\* window size (W, H) with W > 0 and H > 0 and an input scale the host may
\* report, or at (0, 0) for a window size with W <= 0 or H <= 0.
C18_CursorNormalization ==
  [][\A d \in DevIds :
       (/\ Dispatching /\ ev.type = "motion" /\ ev.dev = d /\ inbox' = Tail(inbox)
        /\ devs[d].m_in_surface)
         => \E win \in WinSizes, scale \in Scales :
              LET W == RatInt(win[1])
                  H == RatInt(win[2])
                  two == RatInt(2)
              IN IF win[1] > 0 /\ win[2] > 0
                 THEN /\ devs'[d].cursor.x =
                           RatMul(RatSub(RatMul(RatDiv(ev.x, W), two), One), scale.x)
                      /\ devs'[d].cursor.y =
                           RatMul(RatSub(RatMul(RatDiv(ev.y, H), two), One), scale.y)
                 ELSE /\ win[1] <= 0 \/ win[2] <= 0
                      /\ devs'[d].cursor = Vec2Zero]_vars

\* the motion at (1, 2) in a window of 4 x 2 with scale (1, 1) was applied:
\* the cursor is (-1/2, 1)
C18_Witness ==
  /\ devs[1].m_in_surface
  /\ devs[1].cursor = [x |-> <<-1, 2>>, y |-> <<1, 1>>]
  /\ ~crashed


\* C19: in every step, for every device that exists before and after it: the
\* cursor changes only if the step dispatches a motion event to the device
\* while its in-surface flag is set; the flag goes up only in the dispatch of
\* an enter event for the device's own surface and down only in the dispatch
\* of a leave event for that surface; an enter or leave for another surface
\* leaves the flag as it is; a motion with the flag down leaves the cursor.
C19_CursorFrame ==
  [][\A d \in DevIds \cap DOMAIN devs' :
       LET s == devs[d]
           t == devs'[d]
           handles(type) == Dispatching /\ ev.type = type /\ ev.dev = d
                            /\ inbox' = Tail(inbox)
       IN /\ t.cursor # s.cursor => handles("motion") /\ s.m_in_surface
          /\ (~s.m_in_surface /\ t.m_in_surface)
               => handles("enter") /\ ev.surface = OwnSurface
          /\ (s.m_in_surface /\ ~t.m_in_surface)
               => handles("leave") /\ ev.surface = OwnSurface
          /\ ((handles("enter") \/ handles("leave")) /\ ev.surface # OwnSurface)
               => t.m_in_surface = s.m_in_surface
          /\ (handles("motion") /\ ~s.m_in_surface) => t.cursor = s.cursor]_vars

\* an enter for the own surface and then a motion have been dispatched: the
\* flag is up and the cursor has left the origin
C19_Witness ==
  /\ DevIds # {}
  /\ devs[1].m_in_surface
  /\ devs[1].cursor # Vec2Zero
  /\ inbox = <<>>
  /\ ~crashed


----------------------------------------------------------------------------
(* Properties of the control list *)

\* C21: a capabilities event with the pointer bit, dispatched to a device
\* under construction that has no pointer yet, appends exactly 40 controls to
\* the control list: buttons 0..31 on the button mask, then Cursor X-, X+, Y-,
\* Y+ on the cursor component of their name, then Axis X-, X+, Y-, Y+ on the
\* filtered scroll component of their name; and in every state the pointer
\* controls of a device are these 40, in this order, or none when it has no
\* pointer.
C21_PointerControlSet ==
  [][LET Ctl(kind, index, positive, reads, name) ==
           [kind |-> kind, index |-> index, positive |-> positive, reads |-> reads,
            name |-> name]
         Expected ==
           [i \in 1..32 |-> Ctl("Button", i - 1, TRUE, "buttons", <<"Click", i>>)] \o
           << Ctl("Cursor", 0, FALSE, "cursor.x", <<"Cursor", 0, FALSE>>),
              Ctl("Cursor", 0, TRUE, "cursor.x", <<"Cursor", 0, TRUE>>),
              Ctl("Cursor", 1, FALSE, "cursor.y", <<"Cursor", 1, FALSE>>),
              Ctl("Cursor", 1, TRUE, "cursor.y", <<"Cursor", 1, TRUE>>),
              Ctl("Axis", 0, FALSE, "axis.x", <<"Axis", 0, FALSE>>),
              Ctl("Axis", 0, TRUE, "axis.x", <<"Axis", 0, TRUE>>),
              Ctl("Axis", 1, FALSE, "axis.y", <<"Axis", 1, FALSE>>),
              Ctl("Axis", 1, TRUE, "axis.y", <<"Axis", 1, TRUE>>) >>
         OfPointer(inputs) == SelectSeq(inputs, LAMBDA c : c.kind # "Key")
     IN /\ Len(Expected) = NumButtons + 8
        /\ \A d \in DevIds \cap DOMAIN devs' :
             (/\ Dispatching /\ ev.type = "capabilities" /\ ev.dev = d
              /\ inbox' = Tail(inbox)
              /\ ~devs[d].m_constructed /\ ~devs[d].m_pointer /\ "pointer" \in ev.caps)
               => devs'[d].inputs = devs[d].inputs \o Expected
        /\ \A d \in DOMAIN devs' :
             OfPointer(devs'[d].inputs) = IF devs'[d].m_pointer THEN Expected ELSE <<>>]_vars

\* a constructed device holds the 40 pointer controls followed by its key
\* controls: one capabilities event brought the pointer and the keyboard
C21_Witness ==
  \E d \in DevIds :
    /\ devs[d].m_constructed /\ devs[d].m_pointer
    /\ Len(devs[d].inputs) > NumButtons + 8
    /\ devs[d].inputs[1].kind = "Button"
    /\ devs[d].inputs[NumButtons + 8].kind = "Axis"
    /\ devs[d].inputs[NumButtons + 9].kind = "Key"


\* C22: the step of the keyboard branch that follows its Roundtrip, taken with
\* a compiled layout, appends one key control for each keycode of
\* min_keycode..max_keycode, in ascending order, whose first keysym, a lower
\* case letter 97..122 first reduced by 32, lies in 1..0x0110ffff and has a
\* name shorter than 64; it appends nothing for the other keycodes, the
\* control carries the name of the folded keysym, and no other step changes
\* the key controls of a device.
C22_KeyControlSet ==
  [][\A d \in DevIds \cap DOMAIN devs' :
       LET layout == devs[d].m_keymap
           Sym(k) == IF k \in DOMAIN layout.syms THEN layout.syms[k] ELSE 0
           Folded(k) == IF Sym(k) \in 97..122 THEN Sym(k) - 32 ELSE Sym(k)
           Resolves(k) == /\ Folded(k) # 0
                          /\ Folded(k) \in 1..17891327
                          /\ xkb_keysym_get_name(Folded(k)) \in 0..63
           KeyOf(k) == [kind |-> "Key", index |-> k, positive |-> TRUE,
                        reads |-> "keyboard", name |-> <<"keysym", Folded(k)>>]
           RECURSIVE From(_)
           From(k) == IF k > layout.max THEN <<>>
                      ELSE (IF Resolves(k) THEN <<KeyOf(k)>> ELSE <<>>) \o From(k + 1)
           OfKeys(inputs) == SelectSeq(inputs, LAMBDA c : c.kind = "Key")
           keysStep == ~Idle /\ Top.op = "Caps" /\ Top.pc = "resume" /\ Top.dev = d
                       /\ stack' = Pop
       IN IF keysStep /\ devs[d].m_keystate
          THEN devs'[d].inputs = devs[d].inputs \o From(layout.min)
          ELSE OfKeys(devs'[d].inputs) = OfKeys(devs[d].inputs)]_vars

\* a constructed device built from the layout with keycodes 9..13 (keysyms a,
\* none, 0x01110000, Shift_L, one with an over-long name) has two key
\* controls: keycode 9 named for A (65) and keycode 12
C22_Witness ==
  \E d \in DevIds :
    LET keys == SelectSeq(devs[d].inputs, LAMBDA c : c.kind = "Key")
    IN /\ devs[d].m_constructed /\ devs[d].m_keystate
       /\ devs[d].m_keymap.max = 13
       /\ Len(keys) = 2
       /\ keys[1].index = 9 /\ keys[1].name = <<"keysym", 65>>
       /\ keys[2].index = 12


\* C23: for a device under construction, (1) a keymap event whose format is
\* not XKB v1, that cannot be mapped or that does not compile leaves the device
\* without layout and changes nothing else on it; (2) the step of the keyboard
\* branch that follows its Roundtrip, taken without a compiled layout (none
\* was delivered, or the last one delivered failed), changes nothing on the
\* device; (3) the step that ends the construction leaves the device valid,
\* and if it holds the keyboard binding but no key bitmap, which is the mark
\* of (2), it has no key control and its pointer controls are the full set or,
\* without a pointer, none.  Steps (1) and (2) change no other device.
C23_KeymapFailure ==
  [][\A d \in DevIds \cap DOMAIN devs' :
       LET s == devs[d]
           t == devs'[d]
           failedKeymap == /\ Dispatching /\ ev.type = "keymap" /\ ev.dev = d
                           /\ inbox' = Tail(inbox)
                           /\ ~s.m_constructed
                           /\ \/ ev.km.format # "xkb_v1"
                              \/ ~ev.km.mappable
                              \/ ev.km.layout = NoLayout
           noLayoutKeys == /\ ~Idle /\ Top.op = "Caps" /\ Top.pc = "resume"
                           /\ Top.dev = d /\ stack' = Pop
                           /\ ~s.m_keystate
           ends == ~s.m_constructed /\ t.m_constructed
           others == \A e \in DevIds \ {d} : e \in DOMAIN devs' /\ devs'[e] = devs[e]
       IN /\ failedKeymap
            => /\ t = [s EXCEPT !.m_keymap = NoLayout, !.m_keystate = FALSE]
               /\ others
          /\ noLayoutKeys => (t = s /\ s.m_keyboard /\ others)
          /\ ends
            => /\ t.m_valid
               /\ (t.m_keyboard /\ t.keyboard.len = 0)
                    => /\ \A i \in DOMAIN t.inputs : t.inputs[i].kind # "Key"
                       /\ t.inputs = IF t.m_pointer THEN PointerControls ELSE <<>>]_vars

\* the second device has finished construction with pointer and keyboard
\* bindings, no layout, no key bitmap and exactly its 40 pointer controls, and
\* is valid; the first device still has its layout and is valid
C23_Witness ==
  /\ Len(devs) = 2
  /\ devs[2].m_constructed /\ devs[2].m_valid
  /\ devs[2].m_keyboard /\ devs[2].m_pointer
  /\ ~devs[2].m_keystate /\ devs[2].keyboard.len = 0
  /\ devs[2].inputs = PointerControls
  /\ devs[1].m_constructed /\ devs[1].m_valid /\ devs[1].m_keystate
  /\ ~crashed


\* C24: a capabilities event dispatched to a constructed device whose
\* capability set contains the pointer if the device holds a pointer and the
\* keyboard if it holds a keyboard, whatever else it contains, leaves every
\* field of the device as it was (validity, bindings, layout, control list,
\* input state), sends no request and starts no nested Roundtrip.
C24_GainedCapabilitiesIgnored ==
  [][\A d \in DevIds :
       (/\ Dispatching /\ ev.type = "capabilities" /\ ev.dev = d
        /\ inbox' = Tail(inbox)
        /\ devs[d].m_constructed
        /\ devs[d].m_pointer => "pointer" \in ev.caps
        /\ devs[d].m_keyboard => "keyboard" \in ev.caps)
         => /\ devs' = devs
            /\ requests' = requests
            /\ stack' = stack
            /\ next_obj' = next_obj]_vars

\* a valid device built with the pointer alone has been sent, and has
\* dispatched, the capability set {pointer, keyboard}: it still holds no
\* keyboard and its controls are the 40 pointer controls
C24_Witness ==
  \E d \in DevIds :
    /\ devs[d].m_constructed /\ devs[d].m_valid
    /\ devs[d].m_pointer /\ ~devs[d].m_keyboard
    /\ devs[d].inputs = PointerControls
    /\ srv_globals[devs[d].m_seat_id].iface = "wl_seat"
    /\ srv_globals[devs[d].m_seat_id].caps = {"pointer", "keyboard"}
    /\ <<d, "seat">> \in srv_res
    /\ used.srv = 1 /\ wire = <<>> /\ inbox = <<>> /\ requests = <<>> /\ Idle
    /\ ~crashed


----------------------------------------------------------------------------
(* Properties of the State record *)

\* C25: a step changes the State record of a device (key bitmap, button mask,
\* cursor, accumulated and filtered scroll) only if it is the dispatch of an
\* event addressed to that device, the continuation of its capabilities
\* handler after the keymap Roundtrip, or the step of its own UpdateInput that
\* follows the Roundtrip; the first two happen only under a Roundtrip; the
\* last changes the two scroll vectors and nothing else of the record.  Hence
\* an UpdateInput whose Roundtrip dispatches nothing for the device returns
\* with bitmap, mask and cursor as they were at the call.
C25_StateFrame ==
  [][\A d \in DevIds \cap DOMAIN devs' :
       LET s == devs[d]
           t == devs'[d]
           Record(r) == <<r.keyboard, r.buttons, r.cursor, r.accum_axis, r.axis>>
           callback == \/ /\ Dispatching /\ "dev" \in DOMAIN ev /\ ev.dev = d
                          /\ inbox' = Tail(inbox)
                       \/ ~Idle /\ Top.op = "Caps" /\ Top.pc = "resume" /\ Top.dev = d
           smoothing == /\ ~Idle /\ Top.op = "UpdateInput" /\ Top.pc = "resume"
                        /\ Top.dev = d /\ stack' = Pop
           inRoundtrip == \E i \in 1..Len(stack) : stack[i].op = "Roundtrip"
       IN /\ Record(t) # Record(s) => (callback \/ smoothing)
          /\ (callback /\ Record(t) # Record(s)) => inRoundtrip
          /\ smoothing => /\ t.keyboard = s.keyboard
                          /\ t.buttons = s.buttons
                          /\ t.cursor = s.cursor
                          /\ ~inRoundtrip]_vars

\* an UpdateInput has returned after its Roundtrip dispatched a button press
\* and a scroll event: the smoothing step filtered the scroll and left the
\* button bit in place
C25_Witness ==
  \E d \in DevIds :
    /\ Idle /\ used.update >= 1 /\ used.srv = 2
    /\ devs[d].buttons # {}
    /\ devs[d].axis # Vec2Zero /\ devs[d].accum_axis = Vec2Zero
    /\ ~crashed


----------------------------------------------------------------------------
(* Properties of AtomicInt2D *)

\* C26: a Fetch returns true exactly when a Store has been performed since
\* the previous Fetch, or since construction if there was none.
C26_FetchFlagsResize ==
  atomic_log.op = "Fetch" => atomic_log.ret = atomic_log.was_pending

\* C27: a Fetch outputs the width and height of the most recent Store,
\* whatever it returns, and (0, 0) when no Store was performed.
C27_FetchLatest ==
  atomic_log.op = "Fetch" =>
    <<atomic_log.width_out, atomic_log.height_out>> =
      IF atomic_log.stored = <<>> THEN <<0, 0>> ELSE atomic_log.stored


----------------------------------------------------------------------------
(* Termination *)

\* C28: a Roundtrip that has sent its synchronization request returns only
\* when its callback has been dispatched or a dispatch has failed; the `done`
\* of a waiting RoundtripSync is set only by the dispatch of the
\* acknowledgment of its own request; and, with a compositor that serves every
\* request it has received and a client thread that runs whenever it is not
\* blocked, every call of the host (Init, PopulateDevices with its Seat
\* constructors, UpdateInput) ends: it returns, or the process dies in one of
\* the dispatches on a destroyed queue.
C28_RoundtripTerminates ==
  /\ [][/\ (InLoop /\ Len(stack') < Len(stack)) => (Top.done \/ Top.ret < 0)
        /\ \A i \in 1..Len(stack) :
             (/\ i <= Len(stack') /\ stack[i].op = "Roundtrip"
              /\ ~stack[i].done /\ stack'[i].done)
               => (Dispatching /\ ev.type = "done" /\ ev.cb = i)]_vars
  /\ (~Idle ~> (Idle \/ crashed))

\* an UpdateInput has returned with the proxy intact: its Roundtrip ended by
\* the acknowledgment of its request
C28_Witness ==
  /\ Idle /\ used.update >= 1
  /\ m_queue # Null /\ ~conn_err /\ requests = <<>> /\ wire = <<>> /\ inbox = <<>>
  /\ ~crashed

\* ---------------------------------------------------------------------------
\* Properties of GetState
\* ---------------------------------------------------------------------------

\* C29: a Button control of index i and a Key control of layout keycode k are
\* bit tests of the live state: a control reports released when it is added,
\* the dispatch of a button event for code 0x110 + i (of a key event for
\* protocol keycode k - 8) makes it report pressed exactly when the event is a
\* press, and every other step leaves what it reports alone
C29_BitTests ==
  [][\A d \in DevIds :
       (d <= Len(devs') /\ ~crashed') =>
         \A i \in DOMAIN devs'[d].inputs :
           LET c == devs'[d].inputs[i]
               hit == /\ Dispatching /\ inbox' = Tail(inbox)
                      /\ "dev" \in DOMAIN ev /\ ev.dev = d
                      /\ \/ /\ c.kind = "Button" /\ ev.type = "button"
                            /\ ev.button = ButtonBase + c.index
                         \/ /\ c.kind = "Key" /\ ev.type = "key"
                            /\ ev.key = c.index - KeyOffset
           IN c.kind \in {"Key", "Button"} =>
                GetState(devs'[d], c) =
                  IF i \notin DOMAIN devs[d].inputs THEN Zero
                  ELSE IF hit THEN FromBool(ev.state = "pressed")
                  ELSE GetState(devs[d], devs[d].inputs[i])]_vars

\* the State component behind the Cursor or Axis pair of an index
PairComponent(s, kind, index) ==
  IF kind = "Cursor" THEN (IF index = 0 THEN s.cursor.x ELSE s.cursor.y)
  ELSE (IF index = 0 THEN s.axis.x ELSE s.axis.y)

\* C30: for every device with pointer controls and each of the four pairs
\* (Cursor X, Cursor Y, Axis X, Axis Y), with c the component of the pair and
\* k = 1 for Cursor, 8 for Axis: the list holds exactly one positive and one
\* negative control of the pair; the positive one reports c/k when c > 0 and
\* 0 otherwise, the negative one -c/k when c < 0 and 0 otherwise; so both are
\* >= 0, one of them is 0, and their difference is c/k
C30_SignGated ==
  \A d \in DevIds :
    devs[d].m_pointer =>
      \A kind \in {"Cursor", "Axis"}, index \in {0, 1} :
        LET s == devs[d]
            c == PairComponent(s, kind, index)
            k == IF kind = "Cursor" THEN One ELSE RatInt(8)
            q == RatDiv(c, k)
            of(positive) == {i \in DOMAIN s.inputs :
                               /\ s.inputs[i].kind = kind /\ s.inputs[i].index = index
                               /\ s.inputs[i].positive = positive}
        IN /\ Cardinality(of(TRUE)) = 1 /\ Cardinality(of(FALSE)) = 1
           /\ \A i \in of(TRUE), j \in of(FALSE) :
                LET pos == GetState(s, s.inputs[i])
                    neg == GetState(s, s.inputs[j])
                IN /\ pos = (IF c[1] > 0 THEN q ELSE Zero)
                   /\ neg = (IF c[1] < 0 THEN RatSub(Zero, q) ELSE Zero)
                   /\ pos[1] >= 0 /\ neg[1] >= 0
                   /\ pos = Zero \/ neg = Zero
                   /\ RatSub(pos, neg) = q

C30_Witness ==
  /\ devs[1].m_pointer /\ ~crashed
  /\ devs[1].cursor.x[1] < 0 /\ devs[1].cursor.y[1] > 0
  /\ devs[1].axis.y[1] < 0
  /\ GetState(devs[1], devs[1].inputs[NumButtons + 1]) # Zero
  /\ GetState(devs[1], devs[1].inputs[NumButtons + 7]) # Zero

\* ---------------------------------------------------------------------------
\* Properties of the destructor
\* ---------------------------------------------------------------------------

\* the objects of a Seat in the order the destructor is to release them
ReleaseOrder == <<"keystate", "keymap", "xkb", "pointer", "keyboard", "seat">>

\* the device record s holds the object
Holds(s, object) ==
  CASE object = "keystate" -> s.m_keystate
    [] object = "keymap" -> s.m_keymap # NoLayout
    [] object = "xkb" -> s.m_xkb
    [] object = "pointer" -> s.m_pointer
    [] object = "keyboard" -> s.m_keyboard
    [] object = "seat" -> s.m_seat

\* the release request when the version of the binding has one, else destroy
GracefulOrDestroy(s, object) ==
  CASE object = "keystate" -> "xkb_state_unref"
    [] object = "keymap" -> "xkb_keymap_unref"
    [] object = "xkb" -> "xkb_context_unref"
    [] object = "pointer" ->
         IF s.seat_version >= 3 THEN "wl_pointer_release" ELSE "wl_pointer_destroy"
    [] object = "keyboard" ->
         IF s.seat_version >= 3 THEN "wl_keyboard_release" ELSE "wl_keyboard_destroy"
    [] object = "seat" ->
         IF s.seat_version >= 5 THEN "wl_seat_release" ELSE "wl_seat_destroy"

\* C31: the step in which the host destroys a device adds to the log of
\* release calls, for exactly the objects the device holds and in the order
\* layout state, layout, layout context, pointer, keyboard, seat, one call
\* each: the release request where the version of the binding has one, the
\* destroy otherwise; no other step releases anything, and over a whole run no
\* object of a device is released twice
C31_DestructorReleases ==
  /\ [][IF Len(host_devices') < Len(host_devices)
        THEN \E i \in 1..Len(host_devices) :
               LET d == host_devices[i]
                   s == devs[d]
                   held == SelectSeq(ReleaseOrder, LAMBDA o : Holds(s, o))
               IN /\ d \notin {host_devices'[k] : k \in 1..Len(host_devices')}
                  /\ dtor_log' = dtor_log \o
                       [k \in 1..Len(held) |-> <<d, held[k], GracefulOrDestroy(s, held[k])>>]
                  /\ \A o \in {"keystate", "keymap", "pointer", "keyboard", "seat"} :
                       ~Holds(devs'[d], o)
        ELSE dtor_log' = dtor_log]_vars
  /\ [](\A i, j \in 1..Len(dtor_log) :
          (dtor_log[i][1] = dtor_log[j][1] /\ dtor_log[i][2] = dtor_log[j][2]) => i = j)

\* a device with a pointer, a keyboard and a compiled layout on a seat bound
\* at version 4 was destroyed after the proxy was torn down
C31_Witness ==
  /\ \E k \in 1..Len(dtor_log) : dtor_log[k][3] = "wl_pointer_release"
  /\ \E k \in 1..Len(dtor_log) : dtor_log[k][3] = "wl_keyboard_release"
  /\ \E k \in 1..Len(dtor_log) : dtor_log[k][2] = "keystate"
  /\ \E k \in 1..Len(dtor_log) : dtor_log[k][3] = "wl_seat_destroy"
  /\ m_queue = Null /\ Len(finish_log) > 0
  /\ ~crashed

\* ---------------------------------------------------------------------------
\* Properties of nested calls
\* ---------------------------------------------------------------------------

\* C32: whenever RoundtripSync is about to call wl_display_dispatch_queue the
\* display and the queue are not null, and the queue every running
\* wl_display_dispatch_queue works on is the live queue of the proxy
C32_DispatchOnLiveQueue ==
  ~crashed =>
    /\ (InLoop /\ LoopContinues(Top)) => (m_display # Null /\ m_queue # Null)
    /\ \A i \in 1..Len(stack) : stack[i].op = "Dispatch" => stack[i].q = m_queue

\* C33: while the range-for of PopulateDevices is under way, no insertion into
\* the seat map, no erasure from it and no clear() of it has happened since
\* the loop began
C33_MapStableUnderLoop ==
  iter.active => (~iter.modified /\ iter.valid /\ DOMAIN m_seat_ids = iter.begin)

\* ---------------------------------------------------------------------------
\* Properties of the bounds of the State record
\* ---------------------------------------------------------------------------

\* C34: whenever a key event is about to be dispatched to a device, the key
\* bitmap of the device is allocated and the byte index (key + 8) / 8 is below
\* its length
C34_KeyWriteInBitmap ==
  (Dispatching /\ ev.type = "key" /\ ev.dev \in DevIds) =>
     /\ devs[ev.dev].keyboard.len > 0
     /\ (ev.key + KeyOffset) \div 8 < devs[ev.dev].keyboard.len

\* C35: whenever a button event is about to be dispatched to a device, the
\* shift count button - 0x110 lies in 0..31 (in unsigned arithmetic a code
\* below 0x110 wraps to a count above 31), so that the handler changes the bit
\* of the Button control with that index and no other
C35_ButtonBitInRange ==
  (Dispatching /\ ev.type = "button" /\ ev.dev \in DevIds) =>
     /\ ev.button >= ButtonBase /\ ev.button - ButtonBase < NumButtons
     /\ \A m \in ButtonMasks(devs[ev.dev].buttons, ev.button, ev.state) :
          \A b \in 0..(NumButtons - 1) :
            (b \in m) # (b \in devs[ev.dev].buttons) => b = ev.button - ButtonBase

\* ---------------------------------------------------------------------------
\* Properties of the capability negotiation
\* ---------------------------------------------------------------------------

\* the controls of a kind in a control list
CountKind(inputs, kinds) == Cardinality({i \in DOMAIN inputs : inputs[i].kind \in kinds})

\* C36: in every step and for every device: a get_pointer (get_keyboard)
\* request is sent only in a step that takes the device from no pointer
\* (keyboard) binding to one, and a binding held is kept; controls are added
\* only as the 40 pointer controls in the step that acquires the pointer, or
\* as key controls to a list without key controls; and in every state no
\* control occurs twice in a list and a list holds 0 or 32 buttons, 0 or 4
\* cursor controls and 0 or 4 axis controls
C36_NegotiatedOnce ==
  /\ [][\A d \in DevIds :
         LET s == devs[d]
             t == devs'[d]
             sent(type) == \E k \in 1..Len(requests') :
                             /\ requests'[k].type = type /\ requests'[k].dev = d
                             /\ (k > Len(requests) \/ requests[k] # requests'[k])
             added == SubSeq(t.inputs, Len(s.inputs) + 1, Len(t.inputs))
         IN d <= Len(devs') =>
              /\ (s.m_pointer => t.m_pointer) /\ (s.m_keyboard => t.m_keyboard)
              /\ (InDispatch /\ sent("get_pointer")) => (~s.m_pointer /\ t.m_pointer)
              /\ (InDispatch /\ sent("get_keyboard")) => (~s.m_keyboard /\ t.m_keyboard)
              /\ Len(t.inputs) >= Len(s.inputs)
              /\ SubSeq(t.inputs, 1, Len(s.inputs)) = s.inputs
              /\ added # <<>> =>
                   \/ /\ ~s.m_pointer /\ t.m_pointer /\ ~s.m_constructed
                      /\ Len(added) = NumButtons + 8
                      /\ CountKind(added, {"Key"}) = 0
                   \/ /\ CountKind(s.inputs, {"Key"}) = 0 /\ ~s.m_constructed
                      /\ CountKind(added, {"Key"}) = Len(added)]_vars
  /\ [](\A d \in DevIds :
          LET inputs == devs[d].inputs
          IN /\ \A i, j \in DOMAIN inputs : inputs[i] = inputs[j] => i = j
             /\ CountKind(inputs, {"Button"}) \in {0, NumButtons}
             /\ CountKind(inputs, {"Cursor"}) \in {0, 4}
             /\ CountKind(inputs, {"Axis"}) \in {0, 4})

\* a second capability event with both capabilities is about to be dispatched,
\* inside the nested keymap Roundtrip, to a device under construction that
\* holds both bindings
C36_Witness ==
  /\ Dispatching /\ ev.type = "capabilities" /\ ev.dev \in DevIds
  /\ ev.caps = {"pointer", "keyboard"}
  /\ ~devs[ev.dev].m_constructed
  /\ devs[ev.dev].m_pointer /\ devs[ev.dev].m_keyboard
  /\ Len(devs[ev.dev].inputs) = NumButtons + 8
  /\ \E i \in 1..Len(stack) : stack[i].op = "Caps" /\ stack[i].dev = ev.dev

\* C37: a constructed device that reports valid holds a pointer (keyboard)
\* binding only if the last capability event it handled, before or after its
\* constructor returned, had the pointer (keyboard) capability
C37_ValidMatchesLastCapabilities ==
  \A d \in DevIds :
    (devs[d].m_constructed /\ devs[d].m_valid /\ d \in DOMAIN last_caps) =>
       /\ devs[d].m_pointer => "pointer" \in last_caps[d]
       /\ devs[d].m_keyboard => "keyboard" \in last_caps[d]

\* ---------------------------------------------------------------------------
\* Properties of AtomicInt2D under concurrent calls
\* ---------------------------------------------------------------------------

\* the pair of a step's Store history that a Fetch may hand out: the one
\* fetched before, (0, 0) at first, or the one of the latest Store
FetchOutputsWholePair ==
  [][atomic_log'.op = "Fetch" =>
       LET whole == {<<m_fetched_width, m_fetched_height>>} \cup
                    (IF atomic_log.stored = <<>> THEN {} ELSE {atomic_log.stored})
       IN /\ <<atomic_log'.width_out, atomic_log'.height_out>> \in whole
          /\ <<m_fetched_width', m_fetched_height'>> \in whole]_vars

\* C38: with Store and Fetch steps of two threads in any order, a Fetch
\* outputs a whole pair, the one it output or fetched before ((0, 0) at first)
\* or the pair of the latest Store, never a width and a height of different
\* Stores; and a Fetch that follows the last Store outputs the pair of that
\* Store
C38_ConcurrentStoreFetch ==
  /\ FetchOutputsWholePair
  /\ []((atomic_log.op = "Fetch" /\ atomic_log.stored # <<>>) =>
          <<atomic_log.width_out, atomic_log.height_out>> = atomic_log.stored)

\* ---------------------------------------------------------------------------
\* Properties of the handles of the proxy
\* ---------------------------------------------------------------------------

\* C39: when no operation of the proxy is under way (the host is outside the
\* backend, or a Roundtrip has just returned to its caller), the queue, the
\* display wrapper and the registry are all live or all null, and the seat
\* map has entries only when they are live
C39_HandlesAllOrNothing ==
  (~crashed /\ (Idle \/ Top.pc = "resume")) =>
    /\ \/ m_queue # Null /\ m_display_wrapper # Null /\ m_registry # Null
       \/ m_queue = Null /\ m_display_wrapper = Null /\ m_registry = Null
    /\ DOMAIN m_seat_ids # {} => m_queue # Null

\* a Roundtrip of PopulateDevices or of a Seat constructor has returned after
\* failing, with seats known before: the handles are null and the map is empty
C39_Witness ==
  /\ ~crashed /\ ~Idle /\ Top.pc = "resume"
  /\ m_queue = Null /\ m_display_wrapper = Null /\ m_registry = Null
  /\ m_seat_ids = EmptyMap
  /\ finish_log = <<"registry", "wrapper", "queue">>
  /\ Len(devs) >= 1

====
